---- MODULE Spec2Model ----
(***************************************************************************)
(* Quizem: the essay grading engine (essaygrader.py) and the quiz scoring  *)
(* aggregator (grader.py).                                                  *)
(*                                                                          *)
(* Texts are sequences of one-character strings.  Python values (the       *)
(* parsed model reply, coverage items, deductions) are tagged records:     *)
(*   [t |-> "NoneType"], [t |-> "bool", b], [t |-> "int", n],               *)
(*   [t |-> "float", num, den], [t |-> "str", s], [t |-> "list", items],   *)
(*   [t |-> "dict", keys, vals].                                            *)
(***************************************************************************)
EXTENDS Integers, Sequences, FiniteSets, TLC

(***************************************************************************)
(* Bounds of the model.                                                     *)
(***************************************************************************)
MaxPoints == 3
MaxReqs == 2
MaxQuestions == 2
MaxCalls == 2

(***************************************************************************)
(* Program constants.                                                       *)
(***************************************************************************)
EvidenceWindow == 40
MinTokenLen == 3
EssayScale == 100
DefaultMaxPoints == 100
DefaultMcPoints == 1
DefaultEssayPoints == 10
ReprDigits == 17

(***************************************************************************)
(* Characters and texts.                                                    *)
(***************************************************************************)
LowerLetters ==
    {"a","b","c","d","e","f","g","h","i","j","k","l","m",
     "n","o","p","q","r","s","t","u","v","w","x","y","z"}

UpperLetters ==
    {"A","B","C","D","E","F","G","H","I","J","K","L","M",
     "N","O","P","Q","R","S","T","U","V","W","X","Y","Z"}

DigitChars == {"0","1","2","3","4","5","6","7","8","9"}

LowerOf ==
    [A |-> "a", B |-> "b", C |-> "c", D |-> "d", E |-> "e", F |-> "f",
     G |-> "g", H |-> "h", I |-> "i", J |-> "j", K |-> "k", L |-> "l",
     M |-> "m", N |-> "n", O |-> "o", P |-> "p", Q |-> "q", R |-> "r",
     S |-> "s", T |-> "t", U |-> "u", V |-> "v", W |-> "w", X |-> "x",
     Y |-> "y", Z |-> "z"]

IsSpace(c) == c \in {" ", "\n", "\t", "\r"}

IsWordChar(c) == c \in LowerLetters \cup UpperLetters \cup DigitChars \cup {"_"}

LowerChar(c) == IF c \in UpperLetters THEN LowerOf[c] ELSE c

\* str.lower()
Lower(s) == [i \in 1..Len(s) |-> LowerChar(s[i])]

RECURSIVE LStrip(_)
LStrip(s) == IF s # <<>> /\ IsSpace(Head(s)) THEN LStrip(Tail(s)) ELSE s

RECURSIVE RStrip(_)
RStrip(s) ==
    IF s # <<>> /\ IsSpace(s[Len(s)]) THEN RStrip(SubSeq(s, 1, Len(s) - 1)) ELSE s

\* str.strip()
Strip(s) == RStrip(LStrip(s))

RECURSIVE Flatten(_)
\* the concatenation of the sequences of ss (halving keeps the nesting shallow)
Flatten(ss) ==
    IF ss = <<>> THEN <<>>
    ELSE IF Len(ss) = 1 THEN ss[1]
    ELSE LET h == Len(ss) \div 2
         IN  Flatten(SubSeq(ss, 1, h)) \o Flatten(SubSeq(ss, h + 1, Len(ss)))

RECURSIVE SumSeq(_)
SumSeq(ns) == IF ns = <<>> THEN 0 ELSE Head(ns) + SumSeq(Tail(ns))

Min(a, b) == IF a <= b THEN a ELSE b
Max(a, b) == IF a >= b THEN a ELSE b

SetMin(S) == CHOOSE x \in S : \A y \in S : x <= y
SetMax(S) == CHOOSE x \in S : \A y \in S : x >= y

\* Python round() of the rational num/den (den > 0): nearest, ties to even
RoundHalfEven(num, den) ==
    LET q == num \div den
        r == num % den
    IN  IF 2 * r < den THEN q
        ELSE IF 2 * r > den THEN q + 1
        ELSE IF q % 2 = 0 THEN q ELSE q + 1

(***************************************************************************)
(* Python values.                                                           *)
(***************************************************************************)
PyNone == [t |-> "NoneType"]
PyBool(b) == [t |-> "bool", b |-> b]
PyInt(n) == [t |-> "int", n |-> n]
RECURSIVE Gcd(_, _)
Gcd(a, b) == IF b = 0 THEN a ELSE Gcd(b, a % b)
Abs(n) == IF n < 0 THEN -n ELSE n
\* a float is the rational num/den in lowest terms, den > 0 (the model's
\* floats are short decimals and cosines of integer vectors)
PyFloat(num, den) ==
    LET g == Gcd(Abs(num), Abs(den))
        sgn == IF den < 0 THEN -1 ELSE 1
    IN  [t |-> "float", num |-> sgn * (num \div g), den |-> sgn * (den \div g)]
PyStr(s) == [t |-> "str", s |-> s]
PyList(items) == [t |-> "list", items |-> items]
PyDict(keys, vals) == [t |-> "dict", keys |-> keys, vals |-> vals]

\* dict.get(key): None when the key is missing
DictGet(d, key) ==
    IF \E i \in 1..Len(d.keys) : d.keys[i] = key
    THEN d.vals[CHOOSE i \in 1..Len(d.keys) : d.keys[i] = key]
    ELSE PyNone

DictHas(d, key) == \E i \in 1..Len(d.keys) : d.keys[i] = key

\* d[key] = val on a dict: replace in place or append (insertion order)
DictSet(d, key, val) ==
    IF DictHas(d, key)
    THEN PyDict(d.keys, [i \in 1..Len(d.keys) |->
                            IF d.keys[i] = key THEN val ELSE d.vals[i]])
    ELSE PyDict(Append(d.keys, key), Append(d.vals, val))

\* Python truth value
Truthy(v) ==
    CASE v.t = "NoneType" -> FALSE
      [] v.t = "bool" -> v.b
      [] v.t = "int" -> v.n # 0
      [] v.t = "float" -> v.num # 0
      [] v.t = "str" -> v.s # <<>>
      [] v.t = "list" -> v.items # <<>>
      [] v.t = "dict" -> v.keys # <<>>

(***************************************************************************)
(* Dictionary keys and literal texts of the program.                        *)
(***************************************************************************)
K_grade == <<"g","r","a","d","e">>
K_reasons == <<"r","e","a","s","o","n","s">>
K_coverage == <<"c","o","v","e","r","a","g","e">>
K_deductions == <<"d","e","d","u","c","t","i","o","n","s">>
K_domain_analysis == <<"d","o","m","a","i","n","_","a","n","a","l","y","s","i","s">>
K_requirement == <<"r","e","q","u","i","r","e","m","e","n","t">>
K_addressed == <<"a","d","d","r","e","s","s","e","d">>
K_evidence == <<"e","v","i","d","e","n","c","e">>
K_reason == <<"r","e","a","s","o","n">>
K_note == <<"n","o","t","e">>
K_points == <<"p","o","i","n","t","s">>
K_category == <<"c","a","t","e","g","o","r","y">>
K_backend == <<"b","a","c","k","e","n","d">>
K_model_used == <<"m","o","d","e","l","_","u","s","e","d">>
K_raw_response == <<"r","a","w","_","r","e","s","p","o","n","s","e">>
K_semantic_similarity ==
    <<"s","e","m","a","n","t","i","c","_","s","i","m","i","l","a","r","i","t","y">>
K_max_points == <<"m","a","x","_","p","o","i","n","t","s">>
K_total_deductions == <<"t","o","t","a","l","_","d","e","d","u","c","t","i","o","n","s">>
T_Ellipsis == <<".", ".", ".">>
T_missing_requirement ==
    <<"m","i","s","s","i","n","g","_","r","e","q","u","i","r","e","m","e","n","t">>
T_partial_coverage == <<"p","a","r","t","i","a","l","_","c","o","v","e","r","a","g","e">>
T_reconciliation == <<"r","e","c","o","n","c","i","l","i","a","t","i","o","n">>
T_ollama == <<"o","l","l","a","m","a">>
T_fallback == <<"f","a","l","l","b","a","c","k">>
T_None == <<"N","o","n","e">>
T_True == <<"T","r","u","e">>
T_False == <<"F","a","l","s","e">>

\* The program's message literals are never scanned by the program: each is
\* one atom of a text (a text is a sequence of atoms, one character each in
\* every text the program tokenizes or parses).
T_MissingRequirement == <<"Missing requirement: ">>
T_PartialCoverage ==
    <<"Partial coverage/quality issues (brevity, clarity, depth, or minor inaccuracies)">>
T_Deduction == <<"Deduction">>
T_ReconA == <<"Reconciliation: deductions (">>
T_ReconB == <<") did not equal max_points-grade (">>
T_ReconC == <<"); keeping grade and recording actual difference.">>
T_NonJson1 ==
    <<"LLM returned non-JSON. Extracted text provided in raw_response; using heuristic coverage for structure.">>
T_NonJson2 == <<"Consider adjusting the prompt or model to improve JSON adherence.">>
T_NoReasons == <<"Model did not provide reasons.">>
T_Unavailable == <<"Local model unavailable or call failed; applied heuristic grading.">>
T_ReasonPrefix == <<"Reason: ">>
T_DefaultModel == <<"qwen2.5:14b-instruct">>

(***************************************************************************)
(* str() and repr() of Python values.                                       *)
(***************************************************************************)
DigitChar(d) == <<"0","1","2","3","4","5","6","7","8","9">>[d + 1]

RECURSIVE NatToStr(_)
NatToStr(n) == IF n < 10 THEN <<DigitChar(n)>> ELSE Append(NatToStr(n \div 10), DigitChar(n % 10))

IntToStr(n) == IF n < 0 THEN <<"-">> \o NatToStr(-n) ELSE NatToStr(n)

RECURSIVE FracDigits(_, _, _)
\* the decimal digits of r/den (0 <= r < den), at most n of them
FracDigits(r, den, n) ==
    IF r = 0 \/ n = 0 THEN <<>>
    ELSE <<DigitChar((10 * r) \div den)>> \o FracDigits((10 * r) % den, den, n - 1)

\* repr of a float with a short decimal expansion (no exponent form)
FloatToStr(v) ==
    LET a == Abs(v.num)
        fd == FracDigits(a % v.den, v.den, ReprDigits)
    IN  (IF v.num < 0 THEN <<"-">> ELSE <<>>) \o NatToStr(a \div v.den) \o <<".">>
        \o (IF fd = <<>> THEN <<"0">> ELSE fd)

EscapeChar(c, quote) ==
    CASE c = "\\" -> <<"\\", "\\">>
      [] c = quote -> <<"\\", quote>>
      [] c = "\n" -> <<"\\", "n">>
      [] c = "\t" -> <<"\\", "t">>
      [] c = "\r" -> <<"\\", "r">>
      [] OTHER -> <<c>>

EscapeStr(s, quote) == Flatten([i \in 1..Len(s) |-> EscapeChar(s[i], quote)])

StrRepr(s) ==
    LET hasSingle == \E i \in 1..Len(s) : s[i] = "'"
        hasDouble == \E i \in 1..Len(s) : s[i] = "\""
        quote == IF hasSingle /\ ~hasDouble THEN "\"" ELSE "'"
    IN  <<quote>> \o EscapeStr(s, quote) \o <<quote>>

RECURSIVE PyRepr(_)
RECURSIVE JoinRepr(_, _, _)
\* ", ".join(repr(x)) over list items (keys = <<>>) or dict entries
JoinRepr(keys, vals, i) ==
    IF i > Len(vals) THEN <<>>
    ELSE (IF i > 1 THEN <<",", " ">> ELSE <<>>)
         \o (IF keys = <<>> THEN <<>> ELSE StrRepr(keys[i]) \o <<":", " ">>)
         \o PyRepr(vals[i])
         \o JoinRepr(keys, vals, i + 1)

PyRepr(v) ==
    CASE v.t = "NoneType" -> T_None
      [] v.t = "bool" -> IF v.b THEN T_True ELSE T_False
      [] v.t = "int" -> IntToStr(v.n)
      [] v.t = "float" -> FloatToStr(v)
      [] v.t = "str" -> StrRepr(v.s)
      [] v.t = "list" -> <<"[">> \o JoinRepr(<<>>, v.items, 1) \o <<"]">>
      [] v.t = "dict" -> <<"{">> \o JoinRepr(v.keys, v.vals, 1) \o <<"}">>

\* str(v)
PyToStr(v) == IF v.t = "str" THEN v.s ELSE PyRepr(v)

(***************************************************************************)
(* CoverageAnalyzer: _simple_requirement_match, _heuristic_coverage.        *)
(***************************************************************************)
IsTokenChar(c) == c \in LowerLetters \cup DigitChars

RECURSIVE SplitRuns(_, _)
\* re.split(r"[^a-z0-9]+", s): the maximal runs of token characters (empty
\* pieces are dropped here; the length filter drops them in the source)
SplitRuns(s, cur) ==
    IF s = <<>> THEN (IF cur = <<>> THEN <<>> ELSE <<cur>>)
    ELSE IF IsTokenChar(Head(s)) THEN SplitRuns(Tail(s), Append(cur, Head(s)))
    ELSE (IF cur = <<>> THEN <<>> ELSE <<cur>>) \o SplitRuns(Tail(s), <<>>)

Tokens(requirement) ==
    SelectSeq(SplitRuns(Lower(requirement), <<>>), LAMBDA t : Len(t) >= MinTokenLen)

\* the token t stands at position p of text between two word boundaries
WordAt(text, t, p) ==
    /\ p >= 1
    /\ p + Len(t) - 1 <= Len(text)
    /\ SubSeq(text, p, p + Len(t) - 1) = t
    /\ (p = 1 \/ ~IsWordChar(text[p - 1]))
    /\ (p + Len(t) > Len(text) \/ ~IsWordChar(text[p + Len(t)]))

\* re.search(rf"\b{t}\b", text)
WordSearch(text, t) == \E p \in 1..Len(text) : WordAt(text, t, p)

NoNewline(text, a, b) == \A i \in a..b : text[i] # "\n"

\* the end (index of the closing ".") of the lazy tail .+?\. after position e
TailEnds(text, e) ==
    {j \in (e + 2)..Len(text) : text[j] = "." /\ NoNewline(text, e + 1, j - 1)}

\* (.{0,40}\bt\b.+?\.) matched with the token at p, starting at s
SnippetMatch(text, t, s, p) ==
    /\ s <= p
    /\ p - s <= EvidenceWindow
    /\ NoNewline(text, s, p - 1)
    /\ WordAt(text, t, p)
    /\ TailEnds(text, p + Len(t) - 1) # {}

\* re.search of the snippet pattern: leftmost start, greedy prefix, lazy tail
SnippetSearch(text, t) ==
    LET Upto(s, p) ==
            [found |-> TRUE, text |-> SubSeq(text, s, SetMin(TailEnds(text, p + Len(t) - 1)))]
        From(s) == Upto(s, SetMax({p \in s..Len(text) : SnippetMatch(text, t, s, p)}))
        Among(starts) ==
            IF starts = {} THEN [found |-> FALSE, text |-> <<>>] ELSE From(SetMin(starts))
    IN  Among({s \in 1..Len(text) : \E p \in s..Len(text) : SnippetMatch(text, t, s, p)})

RECURSIVE FirstSnippet(_, _)
FirstSnippet(text, tokens) ==
    IF tokens = <<>> THEN <<>>
    ELSE LET Pick(m) == IF m.found THEN T_Ellipsis \o Strip(m.text)
                         ELSE FirstSnippet(text, Tail(tokens))
         IN  Pick(SnippetSearch(text, Head(tokens)))

\* every whole-word occurrence counted, not every token that occurs
MatchCount_Occurrences(essay_lc, tokens) ==
    Cardinality({o \in (1..Len(tokens)) \X (1..Len(essay_lc)) :
                    WordAt(essay_lc, tokens[o[1]], o[2])})

\* line 543
MatchCount(essay_lc, tokens) ==
    Len(SelectSeq(tokens, LAMBDA t : WordSearch(essay_lc, t)))

\* addressed = ratio >= 0.5 or matches >= 3, ratio = matches / len(tokens)
IsAddressed(matches, ntokens) == 2 * matches >= ntokens \/ matches >= 3

SimpleRequirementMatch(essay_lc, requirement) ==
    LET Match(tokens, addressed) ==
            [addressed |-> addressed,
             evidence |-> IF addressed THEN FirstSnippet(essay_lc, tokens) ELSE <<>>]
        Over(tokens) ==
            IF tokens = <<>> THEN [addressed |-> FALSE, evidence |-> <<>>]
            ELSE Match(tokens, IsAddressed(MatchCount(essay_lc, tokens), Len(tokens)))
    IN  Over(Tokens(requirement))

CoverageItem(requirement, addressed, evidence) ==
    PyDict(<<K_requirement, K_addressed, K_evidence>>,
           <<PyStr(requirement), PyBool(addressed), PyStr(evidence)>>)

\* a requirement that is always kept
SkipRequirement_Never(req_str) == FALSE

\* lines 510-511: if not req_str: continue
SkipRequirement(req_str) == req_str = <<>>

RECURSIVE HeuristicCoverageFrom(_, _)
HeuristicCoverageFrom(essay_lc, requirements) ==
    IF requirements = <<>> THEN <<>>
    ELSE LET Item(req_str, m) == <<CoverageItem(req_str, m.addressed, m.evidence)>>
             Visit(req_str) ==
                 IF SkipRequirement(req_str) THEN <<>>
                 ELSE Item(req_str, SimpleRequirementMatch(essay_lc, req_str))
         IN  Visit(Strip(Head(requirements)))
             \o HeuristicCoverageFrom(essay_lc, Tail(requirements))

\* _heuristic_coverage(essay, requirements): one item per non-blank requirement
HeuristicCoverage(essay, requirements) == HeuristicCoverageFrom(Lower(essay), requirements)

(***************************************************************************)
(* _coverage_to_grade.                                                      *)
(***************************************************************************)
\* coverage is a list of dicts here (the heuristic coverage)
AddressedCount(coverage) ==
    Len(SelectSeq(coverage, LAMBDA c : Truthy(DictGet(c, K_addressed))))

\* the ratio mapping with the fraction cut off instead of rounded
CoverageToGrade_Floor(coverage, max_points) ==
    IF coverage = <<>> THEN 0
    ELSE Max(0, Min(max_points, (AddressedCount(coverage) * max_points) \div Len(coverage)))

\* lines 560-572
CoverageToGrade(coverage, max_points) ==
    IF coverage = <<>> THEN 0
    ELSE LET num == AddressedCount(coverage) * max_points
             den == Len(coverage)
             \* min(max_points, max(0, ratio * max_points)) as the rational n/d
             lo == IF num < 0 THEN 0 ELSE num
             clamped == IF lo > max_points * den THEN max_points * den ELSE lo
         IN  RoundHalfEven(clamped, den)

(***************************************************************************)
(* DeductionReconciler, synthesize mode: _synthesize_deductions.            *)
(***************************************************************************)
MissingDeduction(c, pts) ==
    PyDict(<<K_reason, K_points, K_requirement, K_evidence, K_category>>,
           <<PyStr(T_MissingRequirement
                   \o (IF DictHas(c, K_requirement)
                       THEN PyToStr(DictGet(c, K_requirement)) ELSE <<>>)),
             PyInt(pts),
             DictGet(c, K_requirement),
             DictGet(c, K_evidence),
             PyStr(T_missing_requirement)>>)

PartialDeduction(pts) ==
    PyDict(<<K_reason, K_points, K_category>>,
           <<PyStr(T_PartialCoverage), PyInt(pts), PyStr(T_partial_coverage)>>)

\* a distribution that gives the remainder to the last unaddressed items
SynthesizeDeductions_RemainderLast(grade, max_points, coverage) ==
    LET missing_points == Max(0, max_points - grade)
        Spread(missed, n, base, remainder) ==
            [ok |-> TRUE,
             deductions |-> [idx \in 1..n |->
                 MissingDeduction(missed[idx], base + (IF n - idx < remainder THEN 1 ELSE 0))],
             total |-> missing_points]
        Split(missed, n, base) == Spread(missed, n, base, missing_points - base * n)
        Missed(missed) ==
            IF missed # <<>>
            THEN Split(missed, Len(missed), missing_points \div Len(missed))
            ELSE [ok |-> TRUE, deductions |-> <<PartialDeduction(missing_points)>>,
                  total |-> missing_points]
    IN  IF missing_points = 0 THEN [ok |-> TRUE, deductions |-> <<>>, total |-> 0]
        ELSE IF \E i \in 1..Len(coverage) : coverage[i].t # "dict"
        THEN [ok |-> FALSE, deductions |-> <<>>, total |-> 0]
        ELSE Missed(SelectSeq(coverage, LAMBDA c : ~Truthy(DictGet(c, K_addressed))))

\* the synthesize mode passing over coverage items that are no dict
SynthesizeDeductions_ObjectsOnly(grade, max_points, coverage) ==
    LET missing_points == Max(0, max_points - grade)
        missed == SelectSeq(coverage,
                            LAMBDA c : c.t = "dict" /\ ~Truthy(DictGet(c, K_addressed)))
        n == Len(missed)
        base == missing_points \div n
        remainder == missing_points - base * n
    IN  IF missing_points = 0 THEN [ok |-> TRUE, deductions |-> <<>>, total |-> 0]
        ELSE IF n > 0
        THEN [ok |-> TRUE,
              deductions |-> [idx \in 1..n |->
                  MissingDeduction(missed[idx], base + (IF idx - 1 < remainder THEN 1 ELSE 0))],
              total |-> missing_points]
        ELSE [ok |-> TRUE, deductions |-> <<PartialDeduction(missing_points)>>,
              total |-> missing_points]

\* returns [ok, deductions, total]; ok = FALSE: c.get raised AttributeError
\* on a coverage item that is no dict
SynthesizeDeductions(grade, max_points, coverage) ==
    LET missing_points == Max(0, max_points - grade)
        allDicts == \A i \in 1..Len(coverage) : coverage[i].t = "dict"
        missed == SelectSeq(coverage, LAMBDA c : ~Truthy(DictGet(c, K_addressed)))
        n == Len(missed)
        base == missing_points \div n
        remainder == missing_points - base * n
    IN  IF missing_points = 0 THEN [ok |-> TRUE, deductions |-> <<>>, total |-> 0]
        ELSE IF ~allDicts THEN [ok |-> FALSE, deductions |-> <<>>, total |-> 0]
        ELSE IF n > 0
        THEN [ok |-> TRUE,
              deductions |-> [idx \in 1..n |->
                  MissingDeduction(missed[idx], base + (IF idx - 1 < remainder THEN 1 ELSE 0))],
              total |-> missing_points]
        ELSE [ok |-> TRUE, deductions |-> <<PartialDeduction(missing_points)>>,
              total |-> missing_points]

(***************************************************************************)
(* json.dumps(value, ensure_ascii=False)                                    *)
(***************************************************************************)
T_null == <<"n","u","l","l">>
T_true == <<"t","r","u","e">>
T_false == <<"f","a","l","s","e">>

JsonString(s) == <<"\"">> \o EscapeStr(s, "\"") \o <<"\"">>

RECURSIVE JsonDumps(_)
RECURSIVE JsonJoin(_, _, _)
JsonJoin(keys, vals, i) ==
    IF i > Len(vals) THEN <<>>
    ELSE (IF i > 1 THEN <<",", " ">> ELSE <<>>)
         \o (IF keys = <<>> THEN <<>> ELSE JsonString(keys[i]) \o <<":", " ">>)
         \o JsonDumps(vals[i])
         \o JsonJoin(keys, vals, i + 1)

JsonDumps(v) ==
    CASE v.t = "NoneType" -> T_null
      [] v.t = "bool" -> IF v.b THEN T_true ELSE T_false
      [] v.t = "int" -> IntToStr(v.n)
      [] v.t = "float" -> FloatToStr(v)
      [] v.t = "str" -> JsonString(v.s)
      [] v.t = "list" -> <<"[">> \o JsonJoin(<<>>, v.items, 1) \o <<"]">>
      [] v.t = "dict" -> <<"{">> \o JsonJoin(v.keys, v.vals, 1) \o <<"}">>

(***************************************************************************)
(* json.loads(text): a recursive-descent parser of the JSON grammar         *)
(* (no exponents, no \u escapes, no NaN/Infinity literals: the texts of the *)
(* model hold none).  A parse returns [ok, val, pos]: pos is the index of   *)
(* the first character after the value.                                     *)
(***************************************************************************)
ParseFail == [ok |-> FALSE, val |-> PyNone, pos |-> 0]
ParseOk(v, p) == [ok |-> TRUE, val |-> v, pos |-> p]

DigitVal(c) == CHOOSE d \in 0..9 : DigitChar(d) = c

RECURSIVE SkipWs(_, _)
SkipWs(s, i) == IF i <= Len(s) /\ IsSpace(s[i]) THEN SkipWs(s, i + 1) ELSE i

StartsWithAt(s, i, w) == i + Len(w) - 1 <= Len(s) /\ SubSeq(s, i, i + Len(w) - 1) = w

RECURSIVE DigitsEnd(_, _)
\* the index after the run of digits that starts at i
DigitsEnd(s, i) == IF i <= Len(s) /\ s[i] \in DigitChars THEN DigitsEnd(s, i + 1) ELSE i

RECURSIVE DigitsValue(_)
DigitsValue(ds) ==
    IF ds = <<>> THEN 0 ELSE 10 * DigitsValue(SubSeq(ds, 1, Len(ds) - 1)) + DigitVal(ds[Len(ds)])

RECURSIVE Pow10(_)
Pow10(n) == IF n = 0 THEN 1 ELSE 10 * Pow10(n - 1)

\* (-?(?:0|[1-9]\d*))(\.\d+)? at position i
ParseNumber(s, i) ==
    LET neg == i <= Len(s) /\ s[i] = "-"
        Signed(mag) == IF neg THEN -mag ELSE mag
        Fraction(ip, fd, scale, c) == ParseOk(PyFloat(Signed(ip * scale + DigitsValue(fd)), scale), c)
        WithFraction(ip, b, c) ==
            Fraction(ip, SubSeq(s, b + 1, c - 1), Pow10(c - 1 - b), c)
        Number(ip, b) ==
            IF b + 1 <= Len(s) /\ s[b] = "." /\ s[b + 1] \in DigitChars
            THEN WithFraction(ip, b, DigitsEnd(s, b + 1))
            ELSE ParseOk(PyInt(Signed(ip)), b)
        Integer(a, b) == IF b = a THEN ParseFail ELSE Number(DigitsValue(SubSeq(s, a, b - 1)), b)
        Digits(a) == Integer(a, IF a <= Len(s) /\ s[a] = "0" THEN a + 1 ELSE DigitsEnd(s, a))
    IN  Digits(IF neg THEN i + 1 ELSE i)

RECURSIVE IsEscapedAt(_, _)
\* the character at j follows an odd run of backslashes
IsEscapedAt(s, j) == j > 1 /\ s[j - 1] = "\\" /\ ~IsEscapedAt(s, j - 1)

UnescapeChar(c) ==
    CASE c = "n" -> "\n"
      [] c = "t" -> "\t"
      [] c = "r" -> "\r"
      [] OTHER -> c

\* a JSON string whose opening quote stands at i - 1
ParseStringBody(s, i) ==
    LET Valid(end) ==
            \A p \in i..(end - 1) :
                IF IsEscapedAt(s, p) THEN s[p] \in {"\"", "\\", "/", "n", "t", "r"}
                ELSE s[p] \notin {"\n", "\t", "\r"}
        Decoded(kept) ==
            PyStr([k \in 1..Len(kept) |->
                      IF IsEscapedAt(s, kept[k]) THEN UnescapeChar(s[kept[k]]) ELSE s[kept[k]]])
        Body(end) ==
            IF ~Valid(end) THEN ParseFail
            ELSE ParseOk(Decoded(SelectSeq([k \in 1..(end - i) |-> i + k - 1],
                                           LAMBDA p : ~(s[p] = "\\" /\ ~IsEscapedAt(s, p)))),
                         end + 1)
        Closed(closing) == IF closing = {} THEN ParseFail ELSE Body(SetMin(closing))
    IN  Closed({j \in i..Len(s) : s[j] = "\"" /\ ~IsEscapedAt(s, j)})

RECURSIVE ParseValue(_, _)
RECURSIVE ParseArrayItems(_, _, _)
RECURSIVE ParseObjectMembers(_, _, _)

\* i is the index of the next item; acc the items read so far
ParseArrayItems(s, i, acc) ==
    LET After(v, j) ==
            IF ~v.ok \/ j > Len(s) THEN ParseFail
            ELSE IF s[j] = "]" THEN ParseOk(PyList(Append(acc, v.val)), j + 1)
            ELSE IF s[j] = "," THEN ParseArrayItems(s, SkipWs(s, j + 1), Append(acc, v.val))
            ELSE ParseFail
        Item(v) == After(v, SkipWs(s, v.pos))
    IN  Item(ParseValue(s, i))

\* i is the index of the next key's opening quote; acc the dict read so far
ParseObjectMembers(s, i, acc) ==
    IF i > Len(s) \/ s[i] # "\"" THEN ParseFail
    ELSE LET After(d, j) ==
                 IF s[j] = "}" THEN ParseOk(d, j + 1)
                 ELSE IF s[j] = "," THEN ParseObjectMembers(s, SkipWs(s, j + 1), d)
                 ELSE ParseFail
             Member(k, v, j) ==
                 IF ~v.ok \/ j > Len(s) THEN ParseFail
                 ELSE After(DictSet(acc, k.val.s, v.val), j)
             Value(k, v) == Member(k, v, SkipWs(s, v.pos))
             Colon(k, c) ==
                 IF ~k.ok \/ c > Len(s) \/ s[c] # ":" THEN ParseFail
                 ELSE Value(k, ParseValue(s, SkipWs(s, c + 1)))
             Key(k) == Colon(k, SkipWs(s, k.pos))
         IN  Key(ParseStringBody(s, i + 1))

ParseValue(s, i) ==
    IF i > Len(s) THEN ParseFail
    ELSE CASE s[i] = "\"" -> ParseStringBody(s, i + 1)
           [] s[i] = "{" ->
                LET j == SkipWs(s, i + 1)
                IN  IF j <= Len(s) /\ s[j] = "}" THEN ParseOk(PyDict(<<>>, <<>>), j + 1)
                    ELSE ParseObjectMembers(s, j, PyDict(<<>>, <<>>))
           [] s[i] = "[" ->
                LET j == SkipWs(s, i + 1)
                IN  IF j <= Len(s) /\ s[j] = "]" THEN ParseOk(PyList(<<>>), j + 1)
                    ELSE ParseArrayItems(s, j, <<>>)
           [] s[i] = "n" -> IF StartsWithAt(s, i, T_null) THEN ParseOk(PyNone, i + 4) ELSE ParseFail
           [] s[i] = "t" -> IF StartsWithAt(s, i, T_true) THEN ParseOk(PyBool(TRUE), i + 4) ELSE ParseFail
           [] s[i] = "f" -> IF StartsWithAt(s, i, T_false) THEN ParseOk(PyBool(FALSE), i + 5) ELSE ParseFail
           [] s[i] = "-" \/ s[i] \in DigitChars -> ParseNumber(s, i)
           [] OTHER -> ParseFail

\* json.loads(text): [ok, val]; ok = FALSE is JSONDecodeError
JsonLoads(text) ==
    LET Whole(v) ==
            IF v.ok /\ SkipWs(text, v.pos) > Len(text) THEN [ok |-> TRUE, val |-> v.val]
            ELSE [ok |-> FALSE, val |-> PyNone]
    IN  Whole(ParseValue(text, SkipWs(text, 1)))

(***************************************************************************)
(* ResponseParser: _extract_first_json_object, _parse_llm_json.             *)
(***************************************************************************)
\* depth after the loop body has run for the indices start..i
DepthAfter(text, start, i) ==
    Cardinality({k \in start..i : text[k] = "{"}) - Cardinality({k \in start..i : text[k] = "}"})

\* the substring up to the last "}" that brings depth to 0
ExtractFirstJsonObject_Greedy(text) ==
    LET Upto(start, ends) ==
            IF ends = {} THEN [found |-> FALSE, text |-> <<>>]
            ELSE [found |-> TRUE, text |-> SubSeq(text, start, SetMax(ends))]
        From(start) ==
            Upto(start, {i \in start..Len(text) :
                            text[i] = "}" /\ DepthAfter(text, start, i) = 0})
        Among(opens) ==
            IF opens = {} THEN [found |-> FALSE, text |-> <<>>] ELSE From(SetMin(opens))
    IN  Among({i \in 1..Len(text) : text[i] = "{"})

\* [found, text]: the loop returns at the first "}" that brings depth to 0
ExtractFirstJsonObject(text) ==
    LET Upto(start, ends) ==
            IF ends = {} THEN [found |-> FALSE, text |-> <<>>]
            ELSE [found |-> TRUE, text |-> SubSeq(text, start, SetMin(ends))]
        From(start) ==
            Upto(start, {i \in start..Len(text) :
                            text[i] = "}" /\ DepthAfter(text, start, i) = 0})
        Among(opens) ==
            IF opens = {} THEN [found |-> FALSE, text |-> <<>>] ELSE From(SetMin(opens))
    IN  Among({i \in 1..Len(text) : text[i] = "{"})

\* the direct parse alone, without the extraction of the first object
ParseLlmJson_DirectOnly(text) ==
    LET ValueOf(loaded) == IF loaded.ok THEN loaded.val ELSE PyNone
    IN  ValueOf(JsonLoads(text))

\* the value _parse_llm_json returns: PyNone is Python's None
ParseLlmJson(text) ==
    LET ValueOf(loaded) == IF loaded.ok THEN loaded.val ELSE PyNone
        Salvage(match) ==
            IF match.found /\ match.text # <<>> THEN ValueOf(JsonLoads(match.text)) ELSE PyNone
        Direct(direct) ==
            IF direct.ok THEN direct.val ELSE Salvage(ExtractFirstJsonObject(text))
    IN  Direct(JsonLoads(text))

(***************************************************************************)
(* Exceptions: [type, msg].  NoExc means no exception was raised.           *)
(***************************************************************************)
NoExc == [type |-> <<>>, msg |-> <<>>]
Exc(type, msg) == [type |-> <<type>>, msg |-> msg]

TypeName(v) == <<v.t>>

\* the message of AttributeError raised by v.get on a value that is no dict
NoGetError(v) ==
    Exc("AttributeError", <<"'">> \o TypeName(v) \o <<"' object has no attribute 'get'">>)

NotIterableError(v) ==
    Exc("TypeError", <<"'">> \o TypeName(v) \o <<"' object is not iterable">>)

(***************************************************************************)
(* int(value)                                                               *)
(***************************************************************************)
RECURSIVE DropUnderscores(_)
DropUnderscores(s) ==
    IF s = <<>> THEN <<>>
    ELSE (IF Head(s) = "_" THEN <<>> ELSE <<Head(s)>>) \o DropUnderscores(Tail(s))

\* the digits of an integer literal: digits, single underscores between them
IsIntBody(b) ==
    /\ b # <<>>
    /\ \A i \in 1..Len(b) : b[i] \in DigitChars \cup {"_"}
    /\ b[1] # "_" /\ b[Len(b)] # "_"
    /\ \A i \in 1..(Len(b) - 1) : ~(b[i] = "_" /\ b[i + 1] = "_")

\* int(str): [ok, n]
IntOfStr(s) ==
    LET Value(negative, mag) == [ok |-> TRUE, n |-> IF negative THEN -mag ELSE mag]
        Literal(negative, body) ==
            IF IsIntBody(body) THEN Value(negative, DigitsValue(DropUnderscores(body)))
            ELSE [ok |-> FALSE, n |-> 0]
        Stripped(t) ==
            IF t # <<>> /\ t[1] \in {"+", "-"} THEN Literal(t[1] = "-", Tail(t))
            ELSE Literal(FALSE, t)
    IN  Stripped(Strip(s))

\* int(v): [exc, n]
PyIntConv(v) ==
    CASE v.t = "int" -> [exc |-> NoExc, n |-> v.n]
      [] v.t = "bool" -> [exc |-> NoExc, n |-> IF v.b THEN 1 ELSE 0]
      [] v.t = "float" ->
            [exc |-> NoExc,
             n |-> IF v.num >= 0 THEN v.num \div v.den ELSE -((-v.num) \div v.den)]
      [] v.t = "str" ->
            LET Converted(r) ==
                    IF r.ok THEN [exc |-> NoExc, n |-> r.n]
                    ELSE [exc |-> Exc("ValueError",
                                      <<"invalid literal for int() with base 10: ">>
                                      \o StrRepr(v.s)),
                          n |-> 0]
            IN  Converted(IntOfStr(v.s))
      [] OTHER ->
            [exc |-> Exc("TypeError",
                         <<"int() argument must be a string, a bytes-like object or a real number, not '">>
                         \o TypeName(v) \o <<"'">>),
             n |-> 0]

(***************************************************************************)
(* SimilarityEstimator: _cosine_similarity, _compute_semantic_score.        *)
(***************************************************************************)
EmbedTruncate == 8000

Dot(v1, v2) == SumSeq([i \in 1..Len(v1) |-> v1[i] * v2[i]])

\* math.sqrt on the squared magnitudes of the model's vectors, which are
\* perfect squares
Sqrt(n) == CHOOSE r \in 0..n : r * r = n

Zero == PyFloat(0, 1)

CosineSimilarity(v1, v2) ==
    LET magnitude1 == Sqrt(Dot(v1, v1))
        magnitude2 == Sqrt(Dot(v2, v2))
    IN  IF v1 = <<>> \/ v2 = <<>> \/ Len(v1) # Len(v2) THEN Zero
        ELSE IF magnitude1 = 0 \/ magnitude2 = 0 THEN Zero
        ELSE PyFloat(Dot(v1, v2), magnitude1 * magnitude2)

\* the tail of _compute_semantic_score once both embeddings have arrived
SemanticScore(vec_essay, vec_ideal) ==
    IF vec_essay = <<>> \/ vec_ideal = <<>> THEN PyNone
    ELSE CosineSimilarity(vec_essay, vec_ideal)

RECURSIVE JoinWith(_, _)
\* sep.join(parts)
JoinWith(sep, parts) ==
    IF parts = <<>> THEN <<>>
    ELSE IF Len(parts) = 1 THEN parts[1]
    ELSE parts[1] \o sep \o JoinWith(sep, Tail(parts))

\* text[:8000]
Truncate(text) == SubSeq(text, 1, Min(Len(text), EmbedTruncate))

EmbeddingRequest(text) == [endpoint |-> "embeddings", prompt |-> Truncate(text)]

(***************************************************************************)
(* PromptBuilder: _build_prompt.                                            *)
(***************************************************************************)
\* f"{x:.2f}"
Format2f(v) ==
    LET h == RoundHalfEven(Abs(v.num) * 100, v.den)
    IN  (IF v.num < 0 /\ h > 0 THEN <<"-">> ELSE <<>>) \o NatToStr(h \div 100) \o <<".">>
        \o <<DigitChar((h % 100) \div 10), DigitChar(h % 10)>>

T_Prompt1 ==
    <<"You are an expert academic professor and subject matter expert. Your goal is to provide a rigorous, fair, and holistic evaluation of a student essay.\n\n">>
T_Prompt2 ==
    <<"GRADING STRATEGY:\n1. PRIMARY: Check the essay against the explicit requirements below.\n2. SECONDARY: Apply your own domain knowledge. Reward deep insights, clarity, and accuracy. Penalize factual errors or contradictions even if they satisfy a requirement keyword-wise.\n\nOutput strictly in JSON with the following structure:\n{\n  \"grade\": int (0-">>
T_Prompt3 ==
    <<"),\n  \"reasons\": [list of string explanations],\n  \"coverage\": [{\"requirement\": string, \"addressed\": bool, \"evidence\": string}],\n  \"domain_analysis\": \"A brief paragraph adding expert context, noting factual accuracy or depth beyond the rubric.\",\n  \"max_points\": ">>
T_Prompt4 ==
    <<",\n  \"deductions\": [\n     { \"reason\": string, \"points\": int, \"requirement\": string|null, \"evidence\": string|null, \"category\": \"missing_requirement\"|\"partial_coverage\"|\"factual_error\"|\"off_topic\"|\"clarity/style\" }\n  ],\n  \"total_deductions\": int\n}\n\nREQUIREMENTS:\n">>
T_Prompt5 == <<"\n\nSTUDENT ESSAY:\n">>
T_SimContext1 == <<"CONTEXT - SEMANTIC RELEVANCE SCORE: ">>
T_SimContext2 ==
    <<" / 1.0\n(A score below 0.5 suggests the essay may be off-topic, regardless of keywords.)\n\n">>

SimContext(similarity_score) ==
    IF similarity_score.t = "NoneType" THEN <<>>
    ELSE T_SimContext1 \o Format2f(similarity_score) \o T_SimContext2

\* "\n".join(f"- {req.strip()}" for req in requirements if req and req.strip())
RubricLines(requirements) ==
    LET kept == SelectSeq(requirements, LAMBDA r : Strip(r) # <<>>)
    IN  JoinWith(<<"\n">>, [i \in 1..Len(kept) |-> <<"-", " ">> \o Strip(kept[i])])

\* a prompt that leaves the similarity score out
BuildPrompt_WithoutSimilarity(essay, requirements, similarity_score, max_points) ==
    T_Prompt1
    \o T_Prompt2 \o IntToStr(max_points)
    \o T_Prompt3 \o IntToStr(max_points)
    \o T_Prompt4 \o RubricLines(requirements)
    \o T_Prompt5 \o Strip(essay)

\* _build_prompt
BuildPrompt(essay, requirements, similarity_score, max_points) ==
    T_Prompt1 \o SimContext(similarity_score)
    \o T_Prompt2 \o IntToStr(max_points)
    \o T_Prompt3 \o IntToStr(max_points)
    \o T_Prompt4 \o RubricLines(requirements)
    \o T_Prompt5 \o Strip(essay)

GenerateRequest(prompt) == [endpoint |-> "generate", prompt |-> prompt]

(***************************************************************************)
(* _ollama_generate: the text taken from the response body.                 *)
(***************************************************************************)
K_response == <<"r","e","s","p","o","n","s","e">>

OllamaResponseText(body) ==
    LET Text(parsed) ==
            IF parsed.ok /\ parsed.val.t = "dict" /\ DictHas(parsed.val, K_response)
            THEN Strip(PyToStr(DictGet(parsed.val, K_response)))
            ELSE Strip(body)
    IN  Text(JsonLoads(body))

(***************************************************************************)
(* GradeResult and GradeResult.to_dict.                                     *)
(***************************************************************************)
\* the dataclass with its defaults
GradeResultDefaults ==
    [grade |-> PyNone, reasons |-> PyNone, coverage |-> PyNone, backend |-> PyNone,
     model_used |-> PyNone, raw_response |-> PyNone, semantic_similarity |-> PyNone,
     domain_analysis |-> PyNone, max_points |-> PyNone, deductions |-> PyNone,
     total_deductions |-> PyNone]

\* GradeResult(**given): the given fields over the defaults
GradeResult(given) ==
    [f \in DOMAIN GradeResultDefaults |->
        IF f \in DOMAIN given THEN given[f] ELSE GradeResultDefaults[f]]

ToDict(r) ==
    PyDict(<<K_grade, K_reasons, K_coverage, K_backend, K_model_used, K_raw_response,
             K_semantic_similarity, K_domain_analysis, K_max_points, K_deductions,
             K_total_deductions>>,
           <<r.grade, r.reasons, r.coverage, r.backend, r.model_used, r.raw_response,
             r.semantic_similarity, r.domain_analysis, r.max_points, r.deductions,
             r.total_deductions>>)

(***************************************************************************)
(* DeductionReconciler, normalize mode (grade_essay, lines 208-242).        *)
(***************************************************************************)
\* d.get("reason") or d.get("note") or "Deduction"
ReasonOf(d) ==
    IF Truthy(DictGet(d, K_reason)) THEN DictGet(d, K_reason)
    ELSE IF Truthy(DictGet(d, K_note)) THEN DictGet(d, K_note)
    ELSE PyStr(T_Deduction)

\* the points as supplied, a negative number included
PointsOf_Signed(d) ==
    LET Points(c) == IF c.exc = NoExc THEN c.n ELSE 0
    IN  Points(PyIntConv(DictGet(d, K_points)))

\* try: int(d.get("points")) except: 0; then max(0, pts)
PointsOf(d) ==
    LET Points(c) == IF c.exc = NoExc THEN Max(0, c.n) ELSE 0
    IN  Points(PyIntConv(DictGet(d, K_points)))

RECURSIVE PassThrough(_, _, _)
\* copy the optional keys that are present and not None
PassThrough(item, d, keys) ==
    IF keys = <<>> THEN item
    ELSE PassThrough(IF DictGet(d, Head(keys)) # PyNone
                     THEN DictSet(item, Head(keys), DictGet(d, Head(keys)))
                     ELSE item,
                     d, Tail(keys))

NormalizeOne(d) ==
    PassThrough(PyDict(<<K_reason, K_points>>, <<PyStr(PyToStr(ReasonOf(d))), PyInt(PointsOf(d))>>),
                d, <<K_requirement, K_evidence, K_category>>)

RECURSIVE NormalizeAll(_)
\* entries that are no dict are skipped
NormalizeAll(ds) ==
    IF ds = <<>> THEN <<>>
    ELSE (IF Head(ds).t = "dict" THEN <<NormalizeOne(Head(ds))>> ELSE <<>>)
         \o NormalizeAll(Tail(ds))

PointsSum(deductions) ==
    SumSeq([i \in 1..Len(deductions) |-> DictGet(deductions[i], K_points).n])

\* a reconciliation entry that records a negative difference as it is
ReconciliationEntry_Unclamped(total_ded, expected) ==
    PyDict(<<K_reason, K_points, K_category>>,
           <<PyStr(T_ReconA \o IntToStr(total_ded) \o T_ReconB \o IntToStr(expected) \o T_ReconC),
             PyInt(expected - total_ded),
             PyStr(T_reconciliation)>>)

\* a reconciliation entry that records the size of the difference
ReconciliationEntry_Absolute(total_ded, expected) ==
    PyDict(<<K_reason, K_points, K_category>>,
           <<PyStr(T_ReconA \o IntToStr(total_ded) \o T_ReconB \o IntToStr(expected) \o T_ReconC),
             PyInt(Abs(expected - total_ded)),
             PyStr(T_reconciliation)>>)

\* lines 234-238: the entry appended on a mismatch
ReconciliationEntry(total_ded, expected) ==
    PyDict(<<K_reason, K_points, K_category>>,
           <<PyStr(T_ReconA \o IntToStr(total_ded) \o T_ReconB \o IntToStr(expected) \o T_ReconC),
             PyInt(Max(0, expected - total_ded)),
             PyStr(T_reconciliation)>>)

\* the normalize mode reporting the sum of the entries it was given
NormalizeDeductions_TotalIsSum(llm_deductions, grade, max_points) ==
    LET Reconciled(normalized, total_ded, expected) ==
            IF total_ded # expected
            THEN [deductions |-> Append(normalized, ReconciliationEntry(total_ded, expected)),
                  total |-> total_ded]
            ELSE [deductions |-> normalized, total |-> total_ded]
        Summed(normalized) == Reconciled(normalized, PointsSum(normalized), max_points - grade)
    IN  Summed(NormalizeAll(llm_deductions))

\* lines 232-242: [deductions, total]
NormalizeDeductions(llm_deductions, grade, max_points) ==
    LET Reconciled(normalized, total_ded, expected) ==
            IF total_ded # expected
            THEN [deductions |-> Append(normalized, ReconciliationEntry(total_ded, expected)),
                  total |-> expected]
            ELSE [deductions |-> normalized, total |-> total_ded]
        Summed(normalized) == Reconciled(normalized, PointsSum(normalized), max_points - grade)
    IN  Summed(NormalizeAll(llm_deductions))

(***************************************************************************)
(* GradingOrchestrator: grade_essay.                                        *)
(***************************************************************************)
\* a validation that tests the essay for emptiness without stripping it
ValidateInput_NoStrip(essay, requirements) ==
    IF essay.t # "str" \/ essay.s = <<>>
    THEN Exc("ValueError", <<"essay must be a non-empty string">>)
    ELSE IF requirements.t # "list"
            \/ \E i \in 1..Len(requirements.items) : requirements.items[i].t # "str"
    THEN Exc("ValueError", <<"requirements must be a list of strings">>)
    ELSE NoExc

\* lines 117-120: the error raised, or NoExc
ValidateInput(essay, requirements) ==
    IF essay.t # "str" \/ Strip(essay.s) = <<>>
    THEN Exc("ValueError", <<"essay must be a non-empty string">>)
    ELSE IF requirements.t # "list"
            \/ \E i \in 1..Len(requirements.items) : requirements.items[i].t # "str"
    THEN Exc("ValueError", <<"requirements must be a list of strings">>)
    ELSE NoExc

\* the requirement texts of a validated requirements argument
ReqTexts(requirements) == [i \in 1..Len(requirements.items) |-> requirements.items[i].s]

\* list(map(str, reasons)) for a truthy reasons value: [exc, items]
MapStr(reasons) ==
    CASE reasons.t = "list" ->
            [exc |-> NoExc,
             items |-> [i \in 1..Len(reasons.items) |-> PyStr(PyToStr(reasons.items[i]))]]
      [] reasons.t = "str" ->
            [exc |-> NoExc, items |-> [i \in 1..Len(reasons.s) |-> PyStr(<<reasons.s[i]>>)]]
      [] reasons.t = "dict" ->
            [exc |-> NoExc, items |-> [i \in 1..Len(reasons.keys) |-> PyStr(reasons.keys[i])]]
      [] OTHER -> [exc |-> NotIterableError(reasons), items |-> <<>>]

\* an unparseable reply reported as a fallback result, without the reply text
UnparseableResult_AsFallback(essay, requirements, max_points, model, similarity_score, text) ==
    LET Report(coverage, grade, synth) ==
            ToDict(GradeResult(
                [grade |-> PyInt(grade),
                 reasons |-> PyList(<<PyStr(T_NonJson1), PyStr(T_NonJson2)>>),
                 coverage |-> PyList(coverage),
                 backend |-> PyStr(T_fallback),
                 model_used |-> PyNone,
                 raw_response |-> PyNone,
                 semantic_similarity |-> similarity_score,
                 max_points |-> PyInt(max_points),
                 deductions |-> PyList(synth.deductions),
                 total_deductions |-> PyInt(synth.total)]))
        Graded(coverage, grade) ==
            Report(coverage, grade, SynthesizeDeductions(grade, max_points, coverage))
        Covered(coverage) == Graded(coverage, CoverageToGrade(coverage, max_points))
    IN  Covered(HeuristicCoverage(essay, requirements))

\* lines 163-189: the model replied, the reply is no JSON
UnparseableResult(essay, requirements, max_points, model, similarity_score, response_text) ==
    LET Report(coverage, grade, synth) ==
            ToDict(GradeResult(
                [grade |-> PyInt(grade),
                 reasons |-> PyList(<<PyStr(T_NonJson1), PyStr(T_NonJson2)>>),
                 coverage |-> PyList(coverage),
                 backend |-> PyStr(T_ollama),
                 model_used |-> PyStr(model),
                 raw_response |-> PyStr(response_text),
                 semantic_similarity |-> similarity_score,
                 max_points |-> PyInt(max_points),
                 deductions |-> PyList(synth.deductions),
                 total_deductions |-> PyInt(synth.total)]))
        Graded(coverage, grade) ==
            Report(coverage, grade, SynthesizeDeductions(grade, max_points, coverage))
        Covered(coverage) == Graded(coverage, CoverageToGrade(coverage, max_points))
    IN  Covered(HeuristicCoverage(essay, requirements))

\* a clamp without the upper bound
ClampGrade_NoCeiling(grade, max_points) == Max(0, grade)

\* line 194: max(0, min(max_points, grade))
ClampGrade(grade, max_points) == Max(0, Min(max_points, grade))

\* lines 191-258: the reply parsed to the value parsed; [exc, result]
ParsedResult(essay, requirements, max_points, model, similarity_score, parsed) ==
    LET Raised(e) == [exc |-> e, result |-> PyNone]
        reasons == IF Truthy(DictGet(parsed, K_reasons)) THEN DictGet(parsed, K_reasons)
                   ELSE PyList(<<>>)
        Report(grade, coverage, ded, strs) ==
            ToDict(GradeResult(
                [grade |-> PyInt(grade),
                 reasons |-> PyList(IF strs.items = <<>> THEN <<PyStr(T_NoReasons)>>
                                    ELSE strs.items),
                 coverage |-> PyList(coverage),
                 backend |-> PyStr(T_ollama),
                 model_used |-> PyStr(model),
                 raw_response |-> PyStr(JsonDumps(parsed)),
                 semantic_similarity |-> similarity_score,
                 domain_analysis |-> DictGet(parsed, K_domain_analysis),
                 max_points |-> PyInt(max_points),
                 deductions |-> PyList(ded.deductions),
                 total_deductions |-> PyInt(ded.total)]))
        Reasoned(grade, coverage, ded, strs) ==
            IF strs.exc # NoExc THEN Raised(strs.exc)
            ELSE [exc |-> NoExc, result |-> Report(grade, coverage, ded, strs)]
        Synthesized(grade, coverage, synth) ==
            IF ~synth.ok
            THEN Raised(NoGetError(CHOOSE c \in {coverage[i] : i \in 1..Len(coverage)} :
                                       c.t # "dict"))
            ELSE Reasoned(grade, coverage, synth, MapStr(reasons))
        Deducted(grade, coverage, llm_deductions) ==
            IF llm_deductions.t = "list" /\ llm_deductions.items # <<>>
            THEN Reasoned(grade, coverage,
                          NormalizeDeductions(llm_deductions.items, grade, max_points),
                          MapStr(reasons))
            ELSE Synthesized(grade, coverage, SynthesizeDeductions(grade, max_points, coverage))
        Covered(grade, given) ==
            Deducted(grade,
                     IF given.t # "list" \/ given.items = <<>>
                     THEN HeuristicCoverage(essay, requirements)
                     ELSE given.items,
                     DictGet(parsed, K_deductions))
        Converted(conv) ==
            IF conv.exc # NoExc THEN Raised(conv.exc)
            ELSE Covered(ClampGrade(conv.n, max_points),
                         IF Truthy(DictGet(parsed, K_coverage)) THEN DictGet(parsed, K_coverage)
                         ELSE PyList(<<>>))
    IN  IF parsed.t # "dict" THEN Raised(NoGetError(parsed))
        ELSE Converted(PyIntConv(IF DictHas(parsed, K_grade) THEN DictGet(parsed, K_grade)
                                 ELSE PyInt(0)))

\* lines 162-258: everything after the generation call returned response_text
ModelPath(essay, requirements, max_points, model, similarity_score, response_text) ==
    LET Reply(parsed) ==
            IF parsed = PyNone
            THEN [exc |-> NoExc,
                  result |-> UnparseableResult(essay, requirements, max_points, model,
                                               similarity_score, response_text)]
            ELSE ParsedResult(essay, requirements, max_points, model, similarity_score, parsed)
    IN  Reply(ParseLlmJson(response_text))

\* an except branch that leaves the deduction fields at their defaults
FallbackResult_NoDeductions(essay, requirements, max_points, e) ==
    LET Report(coverage, grade) ==
            ToDict(GradeResult(
                [grade |-> PyInt(grade),
                 reasons |-> PyList(<<PyStr(T_Unavailable),
                                      PyStr(T_ReasonPrefix \o e.type \o <<":", " ">> \o e.msg)>>),
                 coverage |-> PyList(coverage),
                 backend |-> PyStr(T_fallback),
                 model_used |-> PyNone,
                 raw_response |-> PyNone,
                 max_points |-> PyInt(max_points)]))
        Covered(coverage) == Report(coverage, CoverageToGrade(coverage, max_points))
    IN  Covered(HeuristicCoverage(essay, requirements))

\* an except branch that reports the model as the backend
FallbackResult_ModelBackend(essay, requirements, max_points, e) ==
    LET Report(coverage, grade, synth) ==
            ToDict(GradeResult(
                [grade |-> PyInt(grade),
                 reasons |-> PyList(<<PyStr(T_Unavailable),
                                      PyStr(T_ReasonPrefix \o e.type \o <<":", " ">> \o e.msg)>>),
                 coverage |-> PyList(coverage),
                 backend |-> PyStr(T_ollama),
                 model_used |-> PyStr(T_DefaultModel),
                 raw_response |-> PyNone,
                 max_points |-> PyInt(max_points),
                 deductions |-> PyList(synth.deductions),
                 total_deductions |-> PyInt(synth.total)]))
        Graded(coverage, grade) ==
            Report(coverage, grade, SynthesizeDeductions(grade, max_points, coverage))
        Covered(coverage) == Graded(coverage, CoverageToGrade(coverage, max_points))
    IN  Covered(HeuristicCoverage(essay, requirements))

\* an except branch whose deductions depend on the kind of failure
FallbackResult_ByFailureKind(essay, requirements, max_points, e) ==
    IF e.type = <<"TimeoutError">>
    THEN FallbackResult_NoDeductions(essay, requirements, max_points, e)
    ELSE FallbackResult_ModelBackend(essay, requirements, max_points, e)

\* lines 259-281: the except branch
FallbackResult(essay, requirements, max_points, e) ==
    LET Report(coverage, grade, synth) ==
            ToDict(GradeResult(
                [grade |-> PyInt(grade),
                 reasons |-> PyList(<<PyStr(T_Unavailable),
                                      PyStr(T_ReasonPrefix \o e.type \o <<":", " ">> \o e.msg)>>),
                 coverage |-> PyList(coverage),
                 backend |-> PyStr(T_fallback),
                 model_used |-> PyNone,
                 raw_response |-> PyNone,
                 max_points |-> PyInt(max_points),
                 deductions |-> PyList(synth.deductions),
                 total_deductions |-> PyInt(synth.total)]))
        Graded(coverage, grade) ==
            Report(coverage, grade, SynthesizeDeductions(grade, max_points, coverage))
        Covered(coverage) == Graded(coverage, CoverageToGrade(coverage, max_points))
    IN  Covered(HeuristicCoverage(essay, requirements))

\* grade_essay as a function of its arguments and of what the service does:
\* emb1, emb2 the outcomes of the two embedding requests, gen the outcome of
\* the generation request; [exc, result], exc the error raised to the caller
GradeEssay(essay, requirements, max_points, model, emb1, emb2, gen) ==
    LET similarity_score == IF emb1.ok /\ emb2.ok THEN SemanticScore(emb1.vec, emb2.vec)
                            ELSE PyNone
        Outcome(reqs, m, caught) ==
            IF caught # NoExc
            THEN [exc |-> NoExc, result |-> FallbackResult(essay.s, reqs, max_points, caught)]
            ELSE [exc |-> NoExc, result |-> m.result]
        Attempt(reqs, m) == Outcome(reqs, m, IF gen.ok THEN m.exc ELSE gen.exc)
        Grade(reqs) ==
            Attempt(reqs, ModelPath(essay.s, reqs, max_points, model, similarity_score,
                                    OllamaResponseText(gen.body)))
        Checked(invalid) ==
            IF invalid # NoExc THEN [exc |-> invalid, result |-> PyNone]
            ELSE Grade(ReqTexts(requirements))
    IN  Checked(ValidateInput(essay, requirements))


(***************************************************************************)
(* QuizScoringAggregator: grader.py.                                        *)
(***************************************************************************)
K_type == <<"t","y","p","e">>
K_text == <<"t","e","x","t">>
K_options == <<"o","p","t","i","o","n","s">>
K_correct_index == <<"c","o","r","r","e","c","t","_","i","n","d","e","x">>
K_requirements == <<"r","e","q","u","i","r","e","m","e","n","t","s">>
K_questions == <<"q","u","e","s","t","i","o","n","s">>
K_score == <<"s","c","o","r","e">>
K_total == <<"t","o","t","a","l">>
K_percent == <<"p","e","r","c","e","n","t">>
K_per_question == <<"p","e","r","_","q","u","e","s","t","i","o","n">>
K_awarded == <<"a","w","a","r","d","e","d">>
K_correct == <<"c","o","r","r","e","c","t">>
K_details == <<"d","e","t","a","i","l","s">>
K_selected_index == <<"s","e","l","e","c","t","e","d","_","i","n","d","e","x">>
K_prompt == <<"p","r","o","m","p","t">>
K_essaygrader == <<"e","s","s","a","y","g","r","a","d","e","r">>
T_mc == <<"m","c">>
T_essay == <<"e","s","s","a","y">>

\* _question_type: (q.get('type') or 'mc').strip().lower()
QuestionType(q) ==
    LET t == IF Truthy(DictGet(q, K_type)) THEN DictGet(q, K_type) ELSE PyStr(T_mc)
    IN  IF Lower(Strip(t.s)) = T_essay THEN T_essay ELSE T_mc

\* _points_for_mc: int(q.get('points', 1)), 1 when the conversion fails
PointsForMc(q) ==
    LET Points(c) == IF c.exc = NoExc THEN c.n ELSE DefaultMcPoints
    IN  Points(PyIntConv(IF DictHas(q, K_points) THEN DictGet(q, K_points)
                         ELSE PyInt(DefaultMcPoints)))

\* _points_for_essay: max(1, int(q.get('max_points', q.get('points', 10)))),
\* 10 when the conversion fails
PointsForEssay(q) ==
    LET Points(c) == IF c.exc = NoExc THEN Max(1, c.n) ELSE DefaultEssayPoints
    IN  Points(PyIntConv(IF DictHas(q, K_max_points) THEN DictGet(q, K_max_points)
                         ELSE IF DictHas(q, K_points) THEN DictGet(q, K_points)
                         ELSE PyInt(DefaultEssayPoints)))

\* a == b on Python values: numbers compare by value
IsNumber(v) == v.t \in {"int", "bool", "float"}
NumOf(v) == IF v.t = "int" THEN v.n ELSE IF v.t = "bool" THEN (IF v.b THEN 1 ELSE 0) ELSE v.num
DenOf(v) == IF v.t = "float" THEN v.den ELSE 1
PyEq(a, b) ==
    IF IsNumber(a) /\ IsNumber(b) THEN NumOf(a) * DenOf(b) = NumOf(b) * DenOf(a)
    ELSE a = b

\* answers[i] if i < len(answers) else None (i 0-based)
AnswerAt(as, i) == IF i < Len(as) THEN as[i + 1] ELSE PyNone

\* line 102: a if isinstance(a, int) else None
SelectedIndex(a) == IF a.t \in {"int", "bool"} THEN a ELSE PyNone

\* a comparison that lets a missing answer match a missing correct_index
McCorrect_NoneMatches(ai, ci) == PyEq(ai, ci)

\* line 103: (ai is not None) and (ai == ci)
McCorrect(ai, ci) == ai # PyNone /\ PyEq(ai, ci)

\* lines 100-119: the per_question entry of a multiple choice question
McEntry(q, a) ==
    LET Entry(max_pts, ci, ai, correct) ==
            PyDict(<<K_type, K_awarded, K_max_points, K_correct, K_details>>,
                   <<PyStr(T_mc), PyInt(IF correct THEN max_pts ELSE 0), PyInt(max_pts),
                     PyBool(correct),
                     PyDict(<<K_selected_index, K_correct_index, K_options, K_text>>,
                            <<ai, ci,
                              IF DictHas(q, K_options) THEN DictGet(q, K_options)
                              ELSE PyList(<<>>),
                              DictGet(q, K_text)>>)>>)
        Compared(max_pts, ci, ai) == Entry(max_pts, ci, ai, McCorrect(ai, ci))
    IN  Compared(PointsForMc(q), DictGet(q, K_correct_index), SelectedIndex(a))

\* lines 74-76: q.get('requirements') or [], [] when that is no list
EssayRequirements(q) ==
    LET r == IF Truthy(DictGet(q, K_requirements)) THEN DictGet(q, K_requirements)
             ELSE PyList(<<>>)
    IN  IF r.t # "list" THEN PyList(<<>>) ELSE r

\* line 77: a if isinstance(a, str) else (a or '')
EssayText(a) == IF a.t = "str" THEN a ELSE IF Truthy(a) THEN a ELSE PyStr(<<>>)

\* a rescaling that drops the fraction instead of rounding
RescaleGrade_Truncating(grade, max_pts) ==
    Max(0, Min(max_pts, (grade * max_pts) \div EssayScale))

\* lines 82-83: round((grade / 100.0) * max_pts), clamped to [0, max_pts]
\* (the rounding is exact for max_pts below 45: beyond, the float product
\* can leave a tie)
RescaleGrade(grade, max_pts) ==
    Max(0, Min(max_pts, RoundHalfEven(grade * max_pts, EssayScale)))

\* lines 85-95: the per_question entry of an essay question graded as eg
EssayEntry(q, eg) ==
    LET Entry(max_pts, g) ==
            PyDict(<<K_type, K_awarded, K_max_points, K_correct, K_details>>,
                   <<PyStr(T_essay), PyInt(RescaleGrade(g.n, max_pts)), PyInt(max_pts), PyNone,
                     PyDict(<<K_prompt, K_requirements, K_essaygrader>>,
                            <<DictGet(q, K_text), EssayRequirements(q), eg>>)>>)
    IN  Entry(PointsForEssay(q),
              PyIntConv(IF DictHas(eg, K_grade) THEN DictGet(eg, K_grade) ELSE PyInt(0)))

\* round(x, 2) of the rational num/den, as a float
Round2(num, den) ==
    IF den > 0 THEN PyFloat(RoundHalfEven(num * 100, den), 100)
    ELSE PyFloat(RoundHalfEven(-num * 100, -den), 100)

\* line 121: round((score_points / total_points) * 100, 2) if total_points else 0.0
Percent(score, total) == IF total # 0 THEN Round2(score * 100, total) ELSE PyFloat(0, 1)

\* lines 122-127
QuizScore(score, total, entries) ==
    PyDict(<<K_score, K_total, K_percent, K_per_question>>,
           <<PyInt(score), PyInt(total), Percent(score, total), PyList(entries)>>)

\* quiz.get('questions', [])
Questions(qz) == IF DictHas(qz, K_questions) THEN DictGet(qz, K_questions).items ELSE <<>>

(***************************************************************************)
(* The arguments of a grade_essay call and the behaviours of the external   *)
(* service that the model explores.                                         *)
(***************************************************************************)
EssayCat == <<"C","a","t"," ","o","k",".">>
EssayDog == <<"d","o","g">>

ReqCat == <<"c","a","t">>
ReqFox == <<"f","o","x">>
ReqBlank == <<" ">>

\* essay: two gradable texts, the empty text, a blank text, and no string
EssayArgs == {PyStr(EssayCat), PyStr(EssayDog), PyStr(<<>>), PyStr(<<" ">>), PyNone}

RECURSIVE SeqsUpTo(_, _)
\* the sequences over S of length at most n
SeqsUpTo(S, n) ==
    IF n = 0 THEN {<<>>}
    ELSE SeqsUpTo(S, n - 1) \cup {Append(q, x) : q \in {r \in SeqsUpTo(S, n - 1) : Len(r) = n - 1}, x \in S}

ReqChoices == {ReqCat, ReqFox, ReqBlank}

\* requirements: lists of strings, a list holding a non-string, and no list
RequirementArgs ==
    {PyList([i \in 1..Len(q) |-> PyStr(q[i])]) : q \in SeqsUpTo(ReqChoices, MaxReqs)}
    \cup {PyList(<<PyStr(ReqCat), PyInt(7)>>), PyNone}

\* max_points: a negative value, small values, and the default of line 94
MaxPointsArgs == {-1} \cup (1..MaxPoints) \cup {DefaultMaxPoints}

Model == T_DefaultModel

\* a transport failure of urlopen
TransportErrors ==
    {Exc("URLError", <<"<urlopen error [Errno 111] Connection refused>">>),
     Exc("TimeoutError", <<"timed out">>)}

\* the embedding a request returns: vectors with integer magnitudes
Vectors == {<<>>, <<1, 0>>, <<0, 0>>, <<1>>}

EmbeddingOutcomes ==
    {[ok |-> FALSE, vec |-> <<>>]} \cup {[ok |-> TRUE, vec |-> v] : v \in Vectors}

\* fields a model reply may carry: each a dict fragment
NoField == PyDict(<<>>, <<>>)
Field(k, v) == PyDict(<<k>>, <<v>>)

RECURSIVE DictUpdate(_, _, _)
DictUpdate(d, e, i) ==
    IF i > Len(e.keys) THEN d ELSE DictUpdate(DictSet(d, e.keys[i], e.vals[i]), e, i + 1)

Merge(a, b, c) == DictUpdate(DictUpdate(a, b, 1), c, 1)

GradeFields ==
    {NoField,
     Field(K_grade, PyInt(1)),
     Field(K_grade, PyInt(-1)),
     Field(K_grade, PyInt(MaxPoints + 1)),
     Field(K_grade, PyStr(<<"2">>)),
     Field(K_grade, PyStr(<<"x">>))}

DeductionFields ==
    {Field(K_deductions, PyList(<<>>)),
     Field(K_deductions, PyList(<<Field(K_points, PyInt(1))>>)),
     Field(K_deductions, PyList(<<PyDict(<<K_reason, K_points>>,
                                         <<PyStr(<<"r">>), PyInt(MaxPoints + 2)>>)>>)),
     Field(K_deductions,
           PyList(<<Field(K_points, PyStr(<<"x">>)),
                    PyInt(7),
                    PyDict(<<K_note, K_points, K_category>>,
                           <<PyStr(<<"n">>), PyInt(-1), PyStr(<<"c">>)>>)>>))}

CoverageFields ==
    {Field(K_coverage,
           PyList(<<PyDict(<<K_requirement, K_addressed>>, <<PyStr(<<"q">>), PyBool(FALSE)>>),
                    PyDict(<<K_requirement, K_addressed, K_evidence>>,
                           <<PyStr(<<"p">>), PyBool(TRUE), PyStr(<<"e">>)>>),
                    PyDict(<<K_addressed>>, <<PyInt(0)>>)>>)),
     Field(K_coverage, PyList(<<PyInt(7)>>))}

OtherReplies ==
    {Field(K_grade, PyFloat(3, 2)),
     Field(K_grade, PyNone),
     Merge(Field(K_grade, PyInt(1)), Field(K_reasons, PyList(<<PyStr(<<"o","k">>), PyInt(5)>>)),
           Field(K_domain_analysis, PyStr(<<"d">>))),
     Merge(Field(K_grade, PyInt(1)), Field(K_reasons, PyInt(5)), NoField),
     Merge(Field(K_grade, PyInt(1)), Field(K_reasons, PyStr(<<"o","k">>)),
           Field(K_deductions, PyStr(<<"x">>))),
     Merge(Field(K_grade, PyInt(20)),
           Field(K_deductions, PyList(<<Field(K_points, PyInt(70))>>)), NoField),
     PyList(<<PyInt(1)>>),
     PyInt(7),
     PyNone}

ReplyValues ==
    {Merge(g, d, NoField) : g \in GradeFields, d \in DeductionFields}
    \cup {Merge(g, c, NoField) : g \in GradeFields, c \in CoverageFields}
    \cup GradeFields \cup OtherReplies

\* texts that are no JSON value: plain text, an object wrapped in text, an
\* unbalanced brace, a brace pair before the object
JunkTexts ==
    {<<"n","o">>,
     <<"o","k"," ","{","\"","g","r","a","d","e","\"",":"," ","1","}"," ","b","y","e">>,
     <<"{","\"","g","r","a","d","e","\"",":"," ","1">>,
     <<"{","x","}"," ","{","\"","g","r","a","d","e","\"",":"," ","1","}">>}

ReplyTexts == {JsonDumps(v) : v \in ReplyValues} \cup JunkTexts

\* the response bodies of the generate endpoint: {"response": text}, and a
\* body that is no JSON
Bodies ==
    {JsonDumps(Field(K_response, PyStr(<<" ">> \o t))) : t \in ReplyTexts}
    \cup {<<"o","o","p","s">>}

GenerateOutcomes ==
    {[ok |-> FALSE, exc |-> e, body |-> <<>>] : e \in TransportErrors}
    \cup {[ok |-> TRUE, exc |-> NoExc, body |-> b] : b \in Bodies}

(***************************************************************************)
(* One grade_essay call as a state machine.                                 *)
(***************************************************************************)
VARIABLES
    pc,                 \* position of the call
    essay,              \* argument essay
    requirements,       \* argument requirements
    max_points,         \* argument max_points
    vec_essay,          \* local of _compute_semantic_score: the essay's embedding
    vec_ideal,          \* local of _compute_semantic_score: the requirements' embedding
    similarity_score,   \* result of _compute_semantic_score
    response_text,      \* text returned by _ollama_generate
    exc,                \* exception raised to the caller or caught at line 259
    result,             \* the dict returned
    requests,           \* outbound requests made so far
    qpc,                \* position of the grade_quiz call
    quiz,               \* argument quiz
    answers,            \* argument answers
    qi,                 \* loop index i (0-based)
    total_points,       \* local total_points
    score_points,       \* local score_points
    per_question,       \* local per_question
    quiz_exc,           \* exception raised to the caller of grade_quiz
    quiz_result,        \* the dict grade_quiz returns
    calls,              \* the frames of grade_essay calls that run concurrently
    fn,                 \* the helper function called on its own
    arg,                \* its arguments
    ret,                \* what it returned
    today,              \* app.py: the current UTC date, as the day of the month
    quizzes,            \* app.py: the quiz files under data/quizzes, by quiz id
    responses,          \* app.py: the response files saved under data/responses
    page                \* app.py: what the last request was answered with

quizVars == <<qpc, quiz, answers, qi, total_points, score_points, per_question,
              quiz_exc, quiz_result>>

essayVars == <<pc, essay, requirements, max_points, vec_essay, vec_ideal, similarity_score,
               response_text, exc, result, requests>>

concVars == <<calls>>

\* no concurrent calls are in progress
ConcIdle == calls = <<>>

fnVars == <<fn, arg, ret>>

\* no helper function is called on its own
FnIdle == fn = "idle" /\ arg = <<>> /\ ret = <<>>

appVars == <<today, quizzes, responses, page>>

\* the web application is not running
AppIdle == today = 0 /\ quizzes = <<>> /\ responses = <<>> /\ page = "none"

EssayInit ==
    /\ pc = "validate"
    /\ essay \in EssayArgs
    /\ requirements \in RequirementArgs
    /\ max_points \in MaxPointsArgs
    /\ vec_essay = <<>>
    /\ vec_ideal = <<>>
    /\ similarity_score = PyNone
    /\ response_text = <<>>
    /\ exc = NoExc
    /\ result = PyNone
    /\ requests = <<>>

\* the validation run after the essay was sent to the embedding endpoint
Validate_AfterRequest ==
    /\ pc = "validate"
    /\ requests' = Append(requests, [endpoint |-> "embeddings", prompt |-> <<>>])
    /\ exc' = ValidateInput(essay, requirements)
    /\ pc' = IF exc' # NoExc THEN "raised" ELSE "embed_essay"
    /\ UNCHANGED <<essay, requirements, max_points, vec_essay, vec_ideal, similarity_score,
                   response_text, result, quizVars, concVars, fnVars, appVars>>

\* lines 117-120
Validate ==
    /\ pc = "validate"
    /\ exc' = ValidateInput(essay, requirements)
    /\ pc' = IF exc' # NoExc THEN "raised" ELSE "embed_essay"
    /\ UNCHANGED <<essay, requirements, max_points, vec_essay, vec_ideal, similarity_score,
                   response_text, result, requests, quizVars, concVars, fnVars, appVars>>

\* a failed embedding request handled as a failed generation request
EmbedEssay_FailureToFallback ==
    /\ pc = "embed_essay"
    /\ requests' = Append(requests, EmbeddingRequest(essay.s))
    /\ \/ /\ \E v \in Vectors : vec_essay' = v
          /\ pc' = "embed_ideal"
          /\ exc' = exc
       \/ /\ vec_essay' = <<>>
          /\ pc' = "fallback"
          /\ exc' \in TransportErrors
    /\ UNCHANGED <<essay, requirements, max_points, vec_ideal, similarity_score,
                   response_text, result, quizVars, concVars, fnVars, appVars>>

\* _compute_semantic_score, line 378: a failure ends the similarity step
EmbedEssay ==
    /\ pc = "embed_essay"
    /\ requests' = Append(requests, EmbeddingRequest(essay.s))
    /\ \E o \in EmbeddingOutcomes :
          /\ vec_essay' = o.vec
          /\ pc' = IF o.ok THEN "embed_ideal" ELSE "generate"
    /\ UNCHANGED <<essay, requirements, max_points, vec_ideal, similarity_score,
                   response_text, exc, result, quizVars, concVars, fnVars, appVars>>

\* _compute_semantic_score, lines 379-387
EmbedIdeal ==
    /\ pc = "embed_ideal"
    /\ requests' = Append(requests,
                          EmbeddingRequest(JoinWith(<<" ">>, ReqTexts(requirements))))
    /\ \E o \in EmbeddingOutcomes :
          /\ vec_ideal' = o.vec
          /\ similarity_score' = IF o.ok THEN SemanticScore(vec_essay, o.vec) ELSE PyNone
    /\ pc' = "generate"
    /\ UNCHANGED <<essay, requirements, max_points, vec_essay, response_text, exc, result,
                   quizVars, concVars, fnVars, appVars>>

\* lines 147-158: the prompt is built and the generation endpoint called once
\* (the locals of _compute_semantic_score are gone by then)
Generate ==
    /\ pc = "generate"
    /\ requests' = Append(requests,
                          GenerateRequest(BuildPrompt(essay.s, ReqTexts(requirements),
                                                      similarity_score, max_points)))
    /\ \E o \in GenerateOutcomes :
          /\ response_text' = IF o.ok THEN OllamaResponseText(o.body) ELSE <<>>
          /\ exc' = o.exc
          /\ pc' = IF o.ok THEN "parse" ELSE "fallback"
    /\ vec_essay' = <<>>
    /\ vec_ideal' = <<>>
    /\ UNCHANGED <<essay, requirements, max_points, similarity_score, result,
                   quizVars, concVars, fnVars, appVars>>

\* lines 162-258
ParseReply ==
    /\ pc = "parse"
    /\ \E r \in {ModelPath(essay.s, ReqTexts(requirements), max_points, Model,
                            similarity_score, response_text)} :
          /\ exc' = r.exc
          /\ result' = r.result
          /\ pc' = IF r.exc = NoExc THEN "returned" ELSE "fallback"
    /\ UNCHANGED <<essay, requirements, max_points, vec_essay, vec_ideal, similarity_score,
                   response_text, requests, quizVars, concVars, fnVars, appVars>>

\* lines 259-281
Fallback ==
    /\ pc = "fallback"
    /\ result' = FallbackResult(essay.s, ReqTexts(requirements), max_points, exc)
    /\ pc' = "returned"
    /\ UNCHANGED <<essay, requirements, max_points, vec_essay, vec_ideal, similarity_score,
                   response_text, exc, requests, quizVars, concVars, fnVars, appVars>>

\* no grade_quiz call is in progress
QuizIdle ==
    /\ qpc = "idle"
    /\ quiz = PyNone
    /\ answers = PyNone
    /\ qi = 0
    /\ total_points = 0
    /\ score_points = 0
    /\ per_question = <<>>
    /\ quiz_exc = NoExc
    /\ quiz_result = PyNone

Init == EssayInit /\ QuizIdle /\ ConcIdle /\ FnIdle /\ AppIdle

Next == Validate \/ EmbedEssay \/ EmbedIdeal \/ Generate \/ ParseReply \/ Fallback

vars == <<essayVars, quizVars, concVars, fnVars, appVars>>

Spec == Init /\ [][Next]_vars

(***************************************************************************)
(* Properties of grade_essay, checked under Spec.                           *)
(***************************************************************************)
\* the call returned a result
Returned == pc = "returned"

ResultField(k) == DictGet(result, k)

Grade == ResultField(K_grade).n

Deductions == ResultField(K_deductions).items

Coverage == ResultField(K_coverage).items

DeductionPointsSum ==
    SumSeq([i \in 1..Len(Deductions) |-> DictGet(Deductions[i], K_points).n])

\* the text has a character that is no whitespace
NonBlank(s) == \E i \in 1..Len(s) : ~IsSpace(s[i])

ListOfStrings(v) == v.t = "list" /\ \A i \in 1..Len(v.items) : v.items[i].t = "str"

\* the result came from the model's reply, and the reply parsed to an object
ReplyParsed ==
    /\ ResultField(K_backend) = PyStr(T_ollama)
    /\ ParseLlmJson(response_text).t = "dict"

\* C1: every result's deduction points sum to max_points - grade (stated here
\* for max_points > 0 only, where it fails already).
C1_DeductionPointsSumToLostPoints ==
    Returned /\ max_points > 0 => DeductionPointsSum = max_points - Grade

\* C2: every result returned for max_points > 0 has
\* total_deductions = max_points - grade.
C2_TotalDeductionsIsLostPoints ==
    Returned /\ max_points > 0 => ResultField(K_total_deductions) = PyInt(max_points - Grade)

\* C2 witness: a result whose total was set by a reconciliation entry.
C2_ReconciledResult ==
    /\ Returned
    /\ max_points > 0
    /\ \E i \in 1..Len(Deductions) :
          DictGet(Deductions[i], K_category) = PyStr(T_reconciliation)
    /\ ResultField(K_total_deductions) = PyInt(max_points - Grade)

\* C3: every result returned for max_points > 0 has 0 <= grade <= max_points.
C3_GradeWithinRange ==
    Returned /\ max_points > 0 =>
        ResultField(K_grade).t = "int" /\ 0 <= Grade /\ Grade <= max_points

\* C3 witness: the model reported a grade above max_points and the result
\* carries max_points.
C3_ReportedGradeAboveMax ==
    /\ Returned
    /\ max_points > 0
    /\ ReplyParsed
    /\ LET reported == DictGet(ParseLlmJson(response_text), K_grade)
       IN  reported.t = "int" /\ reported.n > max_points
    /\ Grade = max_points

\* the requirements passed in that are not blank, in order
NonBlankRequirements == SelectSeq(ReqTexts(requirements), NonBlank)

\* coverage has one item per non-blank requirement, in the same order
CoverageFollowsRequirements ==
    /\ Len(Coverage) = Len(NonBlankRequirements)
    /\ \A i \in 1..Len(Coverage) :
          /\ Coverage[i].t = "dict"
          /\ DictGet(Coverage[i], K_requirement) = PyStr(Strip(NonBlankRequirements[i]))

\* the result's coverage is the non-empty coverage list of the model's reply
ModelSuppliedCoverage ==
    /\ ReplyParsed
    /\ LET given == DictGet(ParseLlmJson(response_text), K_coverage)
       IN  given.t = "list" /\ given.items # <<>>

\* C4 as stated: every result's coverage has one item per non-blank
\* requirement, in order.
C4_EveryCoverageFollowsRequirements == Returned => CoverageFollowsRequirements

\* C4: every result whose coverage is not the model-supplied list has one
\* coverage item per non-blank requirement, in order.
C4_AnalyzerCoverageFollowsRequirements ==
    Returned /\ ~ModelSuppliedCoverage => CoverageFollowsRequirements

\* C4 witness: a parsed reply without coverage, for requirements holding a
\* blank one and a non-blank one.
C4_BlankRequirementSkipped ==
    /\ Returned
    /\ ReplyParsed
    /\ ~ModelSuppliedCoverage
    /\ Coverage # <<>>
    /\ Len(Coverage) < Len(requirements.items)

\* C5 as stated: the call fails with ValueError exactly when the essay is no
\* string or is empty, or requirements is no list of strings.
C5_RaisesIffEmptyOrIllTyped ==
    pc # "validate" =>
        (pc = "raised" <=>
            (essay.t # "str" \/ essay.s = <<>> \/ ~ListOfStrings(requirements)))

\* C5: the call fails with ValueError and returns no result when the essay is
\* no string or has no character besides whitespace, or when requirements is
\* no list of strings; for every other input it does not fail.
C5_RaisesIffBlankOrIllTyped ==
    pc # "validate" =>
        IF essay.t # "str" \/ ~NonBlank(essay.s) \/ ~ListOfStrings(requirements)
        THEN pc = "raised" /\ exc.type = <<"ValueError">> /\ result = PyNone
        ELSE pc # "raised"

\* C5 witness: a non-empty essay of whitespace was rejected.
C5_WhitespaceEssayRejected ==
    pc = "raised" /\ essay.t = "str" /\ essay.s # <<>> /\ result = PyNone

ResultKeys ==
    {K_grade, K_reasons, K_coverage, K_backend, K_model_used, K_raw_response,
     K_semantic_similarity, K_domain_analysis, K_max_points, K_deductions, K_total_deductions}

\* the result carries each of the eleven fields once
FullyPopulated ==
    /\ result.t = "dict"
    /\ Len(result.keys) = Cardinality(ResultKeys)
    /\ {result.keys[i] : i \in 1..Len(result.keys)} = ResultKeys
    /\ ResultField(K_deductions).t = "list"
    /\ ResultField(K_total_deductions).t = "int"

\* the call does not raise, and a result it returns is full
NoRaiseAndFullResult ==
    /\ pc # "raised"
    /\ Returned => FullyPopulated

NonEmptyInput ==
    essay.t = "str" /\ essay.s # <<>> /\ ListOfStrings(requirements) /\ max_points > 0

NonBlankInput ==
    essay.t = "str" /\ NonBlank(essay.s) /\ ListOfStrings(requirements) /\ max_points > 0

\* the positions of the call in program order; each but the last has a step
\* whose only condition is the position
Positions == <<"validate", "embed_essay", "embed_ideal", "generate", "parse", "fallback",
               "returned">>

PositionOf(p) == CHOOSE i \in 1..Len(Positions) : Positions[i] = p

\* the call is at a position of the program, and a step moves it forward: it
\* ends after at most Len(Positions) steps, at the last position
Advances ==
    /\ \E i \in 1..Len(Positions) : Positions[i] = pc
    /\ \E i \in 1..Len(Positions) : Positions[i] = pc'
    /\ PositionOf(pc') > PositionOf(pc)

\* C6 as stated: for a non-empty essay, a list of string requirements and
\* max_points > 0 the call returns a full result whatever the service does.
C6_NonEmptyEssayGetsFullResult ==
    /\ [](NonEmptyInput => NoRaiseAndFullResult)
    /\ [][NonEmptyInput => Advances]_vars

\* C6: for an essay with a character besides whitespace, a list of string
\* requirements and max_points > 0 the call terminates without raising and
\* returns a result with all eleven fields, deductions a list and
\* total_deductions an integer, whatever the service does.
C6_NonBlankEssayGetsFullResult ==
    /\ [](NonBlankInput => NoRaiseAndFullResult)
    /\ [][NonBlankInput => Advances]_vars

\* C6 witness: the reply parsed, handling it raised AttributeError, and the
\* call returned a full result all the same.
C6_InternalErrorAbsorbed ==
    /\ Returned
    /\ max_points > 0
    /\ exc.type = <<"AttributeError">>
    /\ FullyPopulated

\* the generation request failed in transport
GenerationFailed == exc \in TransportErrors

\* g is the coverage ratio a/n scaled to max_points, rounded and clamped
IsCoverageRatioGrade(g, a, n) ==
    IF n = 0 THEN g = 0
    ELSE IF max_points <= 0 THEN g = max_points
    ELSE 2 * Abs(g * n - a * max_points) <= n

\* the deductions are those of the synthesize mode: one per unaddressed
\* requirement, or one for partial coverage, summing to the points lost
SynthesizedDeductions ==
    LET lost == Max(0, max_points - Grade)
        unaddressed == Len(Coverage) - AddressedCount(Coverage)
    IN  /\ DeductionPointsSum = lost
        /\ ResultField(K_total_deductions) = PyInt(lost)
        /\ Len(Deductions) = (IF lost = 0 THEN 0 ELSE IF unaddressed > 0 THEN unaddressed ELSE 1)
        /\ \A i \in 1..Len(Deductions) :
              DictGet(Deductions[i], K_category) =
                  (IF unaddressed > 0 THEN PyStr(T_missing_requirement)
                   ELSE PyStr(T_partial_coverage))

\* C7: when the generation request fails in transport the call does not
\* raise and returns backend fallback, model_used null, the analyzer's
\* coverage, the coverage-ratio grade, synthesized deductions, and the failure
\* among the reasons.
C7_GenerationFailureFallsBack ==
    GenerationFailed =>
        /\ pc \in {"fallback", "returned"}
        /\ Returned =>
              /\ ResultField(K_backend) = PyStr(T_fallback)
              /\ ResultField(K_model_used) = PyNone
              /\ Coverage = HeuristicCoverage(essay.s, ReqTexts(requirements))
              /\ IsCoverageRatioGrade(Grade, AddressedCount(Coverage), Len(Coverage))
              /\ SynthesizedDeductions
              /\ \E i \in 1..Len(ResultField(K_reasons).items) :
                    ResultField(K_reasons).items[i] =
                        PyStr(T_ReasonPrefix \o exc.type \o <<":", " ">> \o exc.msg)

\* C7 witness: the generation request timed out and the result deducts for an
\* unaddressed requirement.
C7_TimeoutFallback ==
    /\ Returned
    /\ exc.type = <<"TimeoutError">>
    /\ ResultField(K_backend) = PyStr(T_fallback)
    /\ Deductions # <<>>
    /\ AddressedCount(Coverage) > 0

\* the coverage items of the result that are not addressed, in order
Unaddressed == SelectSeq(Coverage, LAMBDA c : ~Truthy(DictGet(c, K_addressed)))

\* the result's deductions were synthesized
SynthesizeMode ==
    /\ Returned
    /\ ~(/\ ReplyParsed
          /\ DictGet(ParseLlmJson(response_text), K_deductions).t = "list"
          /\ DictGet(ParseLlmJson(response_text), K_deductions).items # <<>>)

\* C14: for max_points > 0 and missing = max_points - grade, synthesized
\* deductions are empty when missing = 0; else, with n >= 1 unaddressed
\* coverage items, one missing_requirement deduction per item, in coverage
\* order, with the item's requirement and evidence, the first missing mod n
\* of them of floor(missing / n) + 1 points and the others of
\* floor(missing / n); else one partial_coverage deduction of missing points.
C14_MissingPointsSpreadInOrder ==
    SynthesizeMode /\ max_points > 0 =>
        LET missing == max_points - Grade
            n == Len(Unaddressed)
        IN  IF missing = 0 THEN Deductions = <<>>
            ELSE IF n >= 1
            THEN /\ Len(Deductions) = n
                 /\ \A i \in 1..n :
                       /\ DictGet(Deductions[i], K_category) = PyStr(T_missing_requirement)
                       /\ DictGet(Deductions[i], K_requirement) =
                              DictGet(Unaddressed[i], K_requirement)
                       /\ DictGet(Deductions[i], K_evidence) =
                              DictGet(Unaddressed[i], K_evidence)
                       /\ DictGet(Deductions[i], K_points) =
                              PyInt((missing \div n) + (IF i <= missing % n THEN 1 ELSE 0))
            ELSE /\ Len(Deductions) = 1
                 /\ DictGet(Deductions[1], K_category) = PyStr(T_partial_coverage)
                 /\ DictGet(Deductions[1], K_points) = PyInt(missing)

\* C14 witness: the missing points did not divide evenly between two
\* unaddressed requirements, and the first got the extra point.
C14_FirstGetsRemainder ==
    /\ SynthesizeMode
    /\ max_points > 0
    /\ \A i \in 1..Len(Coverage) : Coverage[i].t = "dict"
    /\ Len(Unaddressed) = 2
    /\ Len(Deductions) = 2
    /\ DictGet(Deductions[1], K_points).n = DictGet(Deductions[2], K_points).n + 1

\* the requests made so far to one endpoint, in order
RequestsTo(endpoint) == SelectSeq(requests, LAMBDA r : r.endpoint = endpoint)

IsPrefix(a, b) == Len(a) <= Len(b) /\ SubSeq(b, 1, Len(a)) = a

\* part stands somewhere in text
Contains(text, part) ==
    \E i \in 0..(Len(text) - Len(part)) : SubSeq(text, i + 1, i + Len(part)) = part

\* the generation request has been made
GenerationDone == pc \in {"parse", "fallback", "returned"}

\* the prompt of the last request
LastPrompt == requests[Len(requests)].prompt

\* C16: a call with valid input requests the essay's embedding and then the
\* requirements' embedding, each at most once, requests the generation
\* endpoint exactly once, after the similarity step and as its last request
\* (none follows a failure), and the prompt sent carries the similarity score
\* exactly when one was computed; a call with invalid input makes no request.
C16_RequestsOnceAndInOrder ==
    IF pc \in {"validate", "raised"} THEN requests = <<>>
    ELSE /\ IsPrefix(RequestsTo("embeddings"),
                     <<EmbeddingRequest(essay.s),
                       EmbeddingRequest(JoinWith(<<" ">>, ReqTexts(requirements)))>>)
         /\ Len(RequestsTo("generate")) = (IF GenerationDone THEN 1 ELSE 0)
         /\ GenerationDone =>
               /\ requests[Len(requests)].endpoint = "generate"
               /\ IF similarity_score # PyNone
                  THEN Contains(LastPrompt, T_SimContext1 \o Format2f(similarity_score))
                  ELSE ~Contains(LastPrompt, T_SimContext1)

\* C16 witness: both embeddings arrived, a similarity was computed, the
\* generation request failed, and the call returned after three requests.
C16_FailedGenerationNotRetried ==
    /\ Returned
    /\ GenerationFailed
    /\ similarity_score # PyNone
    /\ Len(requests) = 3
    /\ Len(RequestsTo("generate")) = 1

\* the call is in the similarity step
InSimilarityStep == pc \in {"embed_essay", "embed_ideal"}

\* a step of the similarity step raises nothing and leaves the call on its
\* way to the generation request
SimilarityStepGoesOn ==
    InSimilarityStep =>
        /\ pc' \in {"embed_ideal", "generate"}
        /\ exc = NoExc /\ exc' = NoExc
        /\ result' = result
        /\ pc' = "generate" /\ (vec_essay' = <<>> \/ vec_ideal' = <<>>)
              => similarity_score' = PyNone

\* the similarity step gave no score, and nothing else in the call failed
OnlySimilarityFailed ==
    /\ Returned
    /\ similarity_score = PyNone
    /\ exc = NoExc

\* C18: a failure of the similarity step alone never moves the call to the
\* fallback path: an embedding step raises nothing and leads on to the
\* generation request with a null score; the generation request is made,
\* and when nothing but the similarity step failed the result has the model
\* backend and a null semantic_similarity.
C18_SimilarityFailureIsNotFallback ==
    /\ [][SimilarityStepGoesOn]_vars
    /\ [](pc \in {"parse", "fallback", "returned"} => Len(RequestsTo("generate")) = 1)
    /\ [](OnlySimilarityFailed =>
            /\ ResultField(K_backend) = PyStr(T_ollama)
            /\ ResultField(K_semantic_similarity) = PyNone)

\* C18 witness: the first embedding request failed (no second one was made),
\* the generation request succeeded, and the result has the model backend
\* and a null semantic_similarity.
C18_FirstEmbeddingFailed ==
    /\ OnlySimilarityFailed
    /\ Len(RequestsTo("embeddings")) = 1
    /\ Len(RequestsTo("generate")) = 1
    /\ ResultField(K_backend) = PyStr(T_ollama)
    /\ ResultField(K_semantic_similarity) = PyNone

\* the similarity of the two embeddings is undefined
UndefinedSimilarity ==
    \/ vec_essay = <<>>
    \/ vec_ideal = <<>>
    \/ Len(vec_essay) # Len(vec_ideal)
    \/ Dot(vec_essay, vec_essay) = 0
    \/ Dot(vec_ideal, vec_ideal) = 0

\* C19: when either embedding is empty, the two differ in length, or either
\* has zero magnitude, the similarity handed on by the similarity step is
\* null, never the number 0.0.
C19_UndefinedSimilarityIsNull ==
    pc = "generate" /\ UndefinedSimilarity => similarity_score = PyNone

\* the generation request succeeded, the reply could not be parsed, and the
\* call returned
UnparseableReplyReturned ==
    /\ Returned
    /\ exc = NoExc
    /\ ParseLlmJson(response_text) = PyNone

\* C17: when the generation request succeeds and the reply cannot be parsed,
\* the result has the model backend and the model's name, the analyzer's
\* coverage, the coverage-ratio grade, synthesized deductions, the non-JSON
\* note among the reasons, and the reply text returned by the generation
\* call as raw_response.
C17_UnparseableReplyStaysOnModelPath ==
    UnparseableReplyReturned =>
        /\ ResultField(K_backend) = PyStr(T_ollama)
        /\ ResultField(K_model_used) = PyStr(Model)
        /\ Coverage = HeuristicCoverage(essay.s, ReqTexts(requirements))
        /\ CoverageFollowsRequirements
        /\ IsCoverageRatioGrade(Grade, AddressedCount(Coverage), Len(Coverage))
        /\ SynthesizedDeductions
        /\ \E i \in 1..Len(ResultField(K_reasons).items) :
              ResultField(K_reasons).items[i] = PyStr(T_NonJson1)
        /\ ResultField(K_raw_response) = PyStr(response_text)

\* C17 witness: a reply of plain text was returned as raw_response of a
\* result with the model backend and a deduction for an unaddressed
\* requirement.
C17_PlainTextReply ==
    /\ UnparseableReplyReturned
    /\ response_text # <<>>
    /\ ResultField(K_backend) = PyStr(T_ollama)
    /\ ResultField(K_raw_response) = PyStr(response_text)
    /\ AddressedCount(Coverage) > 0
    /\ Deductions # <<>>

\* g is round(m * a / n): the nearest integer, the even one of two equally near
IsRounded(g, a, n, m) ==
    /\ 2 * Abs(g * n - a * m) <= n
    /\ 2 * Abs(g * n - a * m) = n => g % 2 = 0

\* the call returned from the fallback path or from the unparseable-reply path
GradedByCoverageRatio ==
    /\ Returned
    /\ \/ ResultField(K_backend) = PyStr(T_fallback)
       \/ UnparseableReplyReturned

\* C20: on the fallback path and on the unparseable-reply path, for
\* max_points > 0, the grade is round(max_points * addressed / total) over the
\* analyzer's coverage, within [0, max_points], and 0 when coverage is empty.
C20_GradeIsRoundedCoverageRatio ==
    GradedByCoverageRatio /\ max_points > 0 =>
        /\ Coverage = HeuristicCoverage(essay.s, ReqTexts(requirements))
        /\ Grade = CoverageToGrade(HeuristicCoverage(essay.s, ReqTexts(requirements)),
                                   max_points)
        /\ 0 <= Grade /\ Grade <= max_points
        /\ IF Coverage = <<>> THEN Grade = 0
           ELSE IsRounded(Grade, AddressedCount(Coverage), Len(Coverage), max_points)

\* C20 witness: one of two requirements addressed at max_points 3 on the
\* fallback path: 1.5 is rounded to 2.
C20_HalfRoundedToEven ==
    /\ Returned
    /\ ResultField(K_backend) = PyStr(T_fallback)
    /\ max_points = 3
    /\ Len(Coverage) = 2
    /\ AddressedCount(Coverage) = 1
    /\ Grade = 2

\* the deductions of the model's reply
ReplyDeductions == DictGet(ParseLlmJson(response_text), K_deductions)

\* the result was built from a parsed reply that carries a non-empty list of
\* deductions
NormalizeMode ==
    /\ Returned
    /\ ReplyParsed
    /\ ReplyDeductions.t = "list"
    /\ ReplyDeductions.items # <<>>

\* the entries of the reply's list that are objects: each gives one
\* normalized entry
NormalizedCount == Len(SelectSeq(ReplyDeductions.items, LAMBDA d : d.t = "dict"))

\* the points of the first n deductions of the result
PointsOfFirst(n) == SumSeq([i \in 1..n |-> DictGet(Deductions[i], K_points).n])

IsReconciliation(d) == DictGet(d, K_category) = PyStr(T_reconciliation)

ReconciliationCount == Len(SelectSeq(Deductions, IsReconciliation))

\* C13: in normalize mode, with S the sum of the normalized points and
\* E = max_points - grade: when S # E the result's deductions are the
\* normalized entries followed by exactly one reconciliation entry of
\* max(0, E - S) points and total_deductions is E; when S = E they are the
\* normalized entries alone.
C13_MismatchIsReconciled ==
    NormalizeMode =>
        LET n == NormalizedCount
            S == PointsOfFirst(NormalizedCount)
            E == max_points - Grade
        IN  /\ Len(Deductions) >= n
            /\ \A i \in 1..n : DictGet(Deductions[i], K_points).n >= 0
            /\ ResultField(K_total_deductions) = PyInt(E)
            /\ IF S # E
               THEN /\ Len(Deductions) = n + 1
                    /\ ReconciliationCount = 1
                    /\ IsReconciliation(Deductions[n + 1])
                    /\ DictGet(Deductions[n + 1], K_points) = PyInt(Max(0, E - S))
               ELSE /\ Len(Deductions) = n
                    /\ ReconciliationCount = 0

\* C13 witness: normalized deductions of 70 points with max_points - grade =
\* 80 were followed by a reconciliation entry of 10 points, total 80.
C13_SeventyOfEighty ==
    /\ NormalizeMode
    /\ max_points - Grade = 80
    /\ Len(Deductions) = 2
    /\ DictGet(Deductions[1], K_points) = PyInt(70)
    /\ IsReconciliation(Deductions[2])
    /\ DictGet(Deductions[2], K_points) = PyInt(10)
    /\ ResultField(K_total_deductions) = PyInt(80)

\* a step that makes a request is taken after the validation has passed
RequestsFollowValidation ==
    requests' # requests =>
        /\ pc # "validate"
        /\ ValidateInput(essay, requirements) = NoExc

\* C28: input validation happens before any outbound call: a call that
\* fails with InvalidInput has issued no embedding and no generation request,
\* and issues none afterwards.
C28_NoRequestBeforeValidation ==
    /\ [](pc \in {"validate", "raised"} => requests = <<>>)
    /\ [](pc = "raised" => ValidateInput(essay, requirements) # NoExc)
    /\ [][RequestsFollowValidation]_vars

\* C28 witness: a call with a gradable essay and a requirements list holding
\* a number raised without any request.
C28_BadRequirementsNoRequest ==
    /\ pc = "raised"
    /\ essay.t = "str" /\ NonBlank(essay.s)
    /\ requirements.t = "list"
    /\ \E i \in 1..Len(requirements.items) : requirements.items[i].t # "str"
    /\ requests = <<>>

\* the model supplied deductions whose normalized points sum to more than
\* max_points - grade
OverDeducted ==
    NormalizeMode /\ PointsOfFirst(NormalizedCount) > max_points - Grade

\* C27: in every result with max_points > 0 the deduction points sum to at
\* least total_deductions, and to more exactly when the model supplied
\* deductions whose normalized points sum to more than max_points - grade;
\* then a reconciliation entry of zero points is the last deduction and
\* total_deductions is max_points - grade.
C27_SumAtLeastTotal ==
    Returned /\ max_points > 0 =>
        /\ ResultField(K_total_deductions).t = "int"
        /\ DeductionPointsSum >= ResultField(K_total_deductions).n
        /\ DeductionPointsSum # ResultField(K_total_deductions).n <=> OverDeducted
        /\ OverDeducted =>
              /\ IsReconciliation(Deductions[Len(Deductions)])
              /\ DictGet(Deductions[Len(Deductions)], K_points) = PyInt(0)
              /\ Len(Deductions) = NormalizedCount + 1
              /\ ResultField(K_total_deductions) = PyInt(max_points - Grade)

\* C27 witness: the model deducted more than was lost; the result keeps the
\* points, ends with a reconciliation entry of zero points, and its total is
\* below the sum.
C27_ExcessKept ==
    /\ Returned
    /\ max_points > 0
    /\ OverDeducted
    /\ DeductionPointsSum > ResultField(K_total_deductions).n
    /\ DictGet(Deductions[Len(Deductions)], K_points) = PyInt(0)
    /\ IsReconciliation(Deductions[Len(Deductions)])

\* the supplied entries that are objects, in the supplied order
SuppliedObjects == SelectSeq(ReplyDeductions.items, LAMBDA d : d.t = "dict")

\* the points a supplied entry is to get: the supplied integer when it is not
\* negative, 0 when it is missing, negative or no number
ExpectedPoints(d) ==
    LET Of(p) == IF p.t = "int" THEN Max(0, p.n)
                 ELSE IF p.t \in {"NoneType", "list", "dict"} THEN 0
                 ELSE PointsOf(d)
    IN  Of(DictGet(d, K_points))

HasText(v) == v.t = "str" /\ v.s # <<>>

\* every deduction of the result has points >= 0
NoNegativeDeduction ==
    \A i \in 1..Len(Deductions) :
        DictGet(Deductions[i], K_points).t = "int" /\ DictGet(Deductions[i], K_points).n >= 0

\* C25 as stated: in normalize mode every supplied entry yields one
\* normalized deduction, in order, with points a non-negative integer (0 when
\* missing, negative or no number) and the generic label as reason when the
\* reason is missing; so every deduction of every result has points >= 0.
C25_EveryEntryNormalized ==
    /\ Returned => NoNegativeDeduction
    /\ NormalizeMode =>
          /\ Len(Deductions) - ReconciliationCount = Len(ReplyDeductions.items)
          /\ \A i \in 1..Len(ReplyDeductions.items) :
                ReplyDeductions.items[i].t = "dict" /\ i <= Len(Deductions) =>
                    /\ DictGet(Deductions[i], K_points)
                          = PyInt(ExpectedPoints(ReplyDeductions.items[i]))
                    /\ ~DictHas(ReplyDeductions.items[i], K_reason)
                          => DictGet(Deductions[i], K_reason) = PyStr(T_Deduction)

\* C25 amended: in normalize mode every supplied entry that is an object
\* yields one normalized deduction, in order (other entries are skipped),
\* with points as stated, the optional fields passed through, and as reason
\* the supplied reason, else the supplied note, else the generic label; every
\* deduction of every result has points >= 0.
C25_EveryObjectEntryNormalized ==
    /\ Returned => NoNegativeDeduction
    /\ NormalizeMode =>
          /\ Len(Deductions) - ReconciliationCount = Len(SuppliedObjects)
          /\ \A i \in 1..Len(SuppliedObjects) :
                /\ DictGet(Deductions[i], K_points) = PyInt(ExpectedPoints(SuppliedObjects[i]))
                /\ DictGet(Deductions[i], K_reason) =
                      (IF HasText(DictGet(SuppliedObjects[i], K_reason))
                       THEN DictGet(SuppliedObjects[i], K_reason)
                       ELSE IF HasText(DictGet(SuppliedObjects[i], K_note))
                       THEN DictGet(SuppliedObjects[i], K_note)
                       ELSE PyStr(T_Deduction))
                /\ \A key \in {K_requirement, K_evidence, K_category} :
                      DictGet(Deductions[i], key) = DictGet(SuppliedObjects[i], key)

\* C25 witness: of three supplied entries the one that is no object was
\* skipped, points 'x' and -1 became 0, and the reason came from the generic
\* label and from the note.
C25_ThreeSuppliedTwoNormalized ==
    /\ NormalizeMode
    /\ Len(ReplyDeductions.items) = 3
    /\ Len(SuppliedObjects) = 2
    /\ DictGet(SuppliedObjects[2], K_points) = PyInt(-1)
    /\ DictGet(Deductions[1], K_points) = PyInt(0)
    /\ DictGet(Deductions[1], K_reason) = PyStr(T_Deduction)
    /\ DictGet(Deductions[2], K_points) = PyInt(0)
    /\ DictGet(Deductions[2], K_reason) = DictGet(SuppliedObjects[2], K_note)

\* the generation request succeeded and the call returned
ReturnedAfterReply == Returned /\ exc \notin TransportErrors /\ requests # <<>>

\* the reply parses as JSON, directly or after extraction
ReplyIsJson == JsonLoads(response_text).ok \/ ParseLlmJson(response_text) # PyNone

\* the JSON value of the reply
ReplyValue ==
    IF JsonLoads(response_text).ok THEN JsonLoads(response_text).val
    ELSE ParseLlmJson(response_text)

\* the reply's grade field, 0 when the reply has none
ReplyGrade ==
    PyIntConv(IF DictHas(ReplyValue, K_grade) THEN DictGet(ReplyValue, K_grade) ELSE PyInt(0))

\* the reply is an object whose grade field is no integer
GradeNotConvertible == ReplyValue.t = "dict" /\ ReplyGrade.exc # NoExc

\* the reply is an object with a usable grade and a coverage list holding an
\* item that is no object, and deductions are to be synthesized
CoverageItemNotObject ==
    /\ ReplyValue.t = "dict"
    /\ ReplyGrade.exc = NoExc
    /\ DictGet(ReplyValue, K_coverage).t = "list"
    /\ \E i \in 1..Len(DictGet(ReplyValue, K_coverage).items) :
          DictGet(ReplyValue, K_coverage).items[i].t # "dict"
    /\ ~(/\ DictGet(ReplyValue, K_deductions).t = "list"
          /\ DictGet(ReplyValue, K_deductions).items # <<>>)

\* the heuristic result of the fallback path, with the error among the reasons
FallbackWithReason ==
    /\ ResultField(K_backend) = PyStr(T_fallback)
    /\ ResultField(K_model_used) = PyNone
    /\ Coverage = HeuristicCoverage(essay.s, ReqTexts(requirements))
    /\ exc # NoExc
    /\ \E i \in 1..Len(ResultField(K_reasons).items) :
          ResultField(K_reasons).items[i] =
              PyStr(T_ReasonPrefix \o exc.type \o <<":", " ">> \o exc.msg)

\* the handling of a reply never raises to the caller
ReplyHandlingDoesNotRaise == pc \in {"parse", "fallback"} => pc' \in {"fallback", "returned"}

QChoice ==
    PyDict(<<K_type, K_text, K_options, K_correct_index, K_points>>,
           <<PyStr(T_mc), PyStr(<<"q">>), PyList(<<PyStr(<<"a">>), PyStr(<<"b">>)>>),
             PyInt(1), PyInt(2)>>)

\* a question without type whose stored points are negative
QChoiceNegative ==
    PyDict(<<K_text, K_correct_index, K_points>>, <<PyStr(<<"n">>), PyInt(0), PyInt(-1)>>)

\* a choice question without correct_index whose stored points are no number
QChoiceUnreadable ==
    PyDict(<<K_type, K_points>>, <<PyStr(<<"M","C">>), PyStr(<<"x">>)>>)

\* an essay question with two requirements
QEssay ==
    PyDict(<<K_type, K_text, K_requirements, K_max_points>>,
           <<PyStr(T_essay), PyStr(<<"p">>), PyList(<<PyStr(ReqCat), PyStr(ReqFox)>>),
             PyInt(MaxPoints)>>)

\* an essay question typed ' Essay ', without requirements, with points 0
QEssayLoose ==
    PyDict(<<K_type, K_points>>, <<PyStr(<<" ","E","s","s","a","y"," ">>), PyInt(0)>>)

QuestionChoices == {QChoice, QChoiceNegative, QChoiceUnreadable, QEssay, QEssayLoose}

QuizArgs == {Field(K_questions, PyList(qs)) : qs \in SeqsUpTo(QuestionChoices, MaxQuestions)}
            \cup {NoField}

\* an answer: none, an option index, a text, the empty text
AnswerChoices == {PyNone, PyInt(0), PyInt(1), PyStr(EssayCat), PyStr(<<>>)}

\* the answers lists of at most n answers
AnswerArgs(n) == {PyList(as) : as \in SeqsUpTo(AnswerChoices, n)}

\* the grades the model replies with during a quiz
QuizReplyGrades == {0, 50, 150}

\* what the service does during one grade_essay call of a quiz: the embedding
\* endpoint fails, the generation endpoint fails or replies with a grade
QuizServiceOutcomes ==
    {[emb1 |-> [ok |-> FALSE, vec |-> <<>>], emb2 |-> [ok |-> FALSE, vec |-> <<>>], gen |-> g] :
        g \in {[ok |-> FALSE, exc |-> CHOOSE e \in TransportErrors : e.type = <<"TimeoutError">>,
                body |-> <<>>]}
              \cup {[ok |-> TRUE, exc |-> NoExc,
                     body |-> JsonDumps(Field(K_response,
                                              PyStr(JsonDumps(Field(K_grade, PyInt(n))))))] :
                       n \in QuizReplyGrades}}

(***************************************************************************)
(* One grade_quiz call as a state machine: one step per question.           *)
(***************************************************************************)
\* no grade_essay call of its own is in progress
EssayIdle ==
    /\ pc = "idle"
    /\ essay = PyNone
    /\ requirements = PyNone
    /\ max_points = 0
    /\ vec_essay = <<>>
    /\ vec_ideal = <<>>
    /\ similarity_score = PyNone
    /\ response_text = <<>>
    /\ exc = NoExc
    /\ result = PyNone
    /\ requests = <<>>

\* lines 62-66: grade_quiz entered, the locals at their initial values
QuizEntered ==
    /\ qpc = "loop"
    /\ quiz \in QuizArgs
    /\ answers \in AnswerArgs(Len(Questions(quiz)))
    /\ qi = 0
    /\ total_points = 0
    /\ score_points = 0
    /\ per_question = <<>>
    /\ quiz_exc = NoExc
    /\ quiz_result = PyNone

\* the question the loop is at
CurrentQuestion == Questions(quiz)[qi + 1]

\* lines 99-119: the loop body for a multiple choice question
GradeChoice ==
    /\ qpc = "loop"
    /\ qi < Len(Questions(quiz))
    /\ QuestionType(CurrentQuestion) # T_essay
    /\ \E entry \in {McEntry(CurrentQuestion, AnswerAt(answers.items, qi))} :
          /\ per_question' = Append(per_question, entry)
          /\ score_points' = score_points + DictGet(entry, K_awarded).n
          /\ total_points' = total_points + DictGet(entry, K_max_points).n
    /\ qi' = qi + 1
    /\ UNCHANGED <<qpc, quiz, answers, quiz_exc, quiz_result, essayVars, concVars, fnVars, appVars>>

\* lines 72-97: the loop body for an essay question; an error of grade_essay
\* is raised to the caller of grade_quiz
GradeEssayQuestion ==
    /\ qpc = "loop"
    /\ qi < Len(Questions(quiz))
    /\ QuestionType(CurrentQuestion) = T_essay
    /\ \E o \in QuizServiceOutcomes :
          \E eg \in {GradeEssay(EssayText(AnswerAt(answers.items, qi)),
                                 EssayRequirements(CurrentQuestion), EssayScale, Model,
                                 o.emb1, o.emb2, o.gen)} :
             IF eg.exc # NoExc
             THEN /\ qpc' = "raised"
                  /\ quiz_exc' = eg.exc
                  /\ UNCHANGED <<qi, per_question, score_points, total_points>>
             ELSE \E entry \in {EssayEntry(CurrentQuestion, eg.result)} :
                     /\ per_question' = Append(per_question, entry)
                     /\ score_points' = score_points + DictGet(entry, K_awarded).n
                     /\ total_points' = total_points + DictGet(entry, K_max_points).n
                     /\ qi' = qi + 1
                     /\ UNCHANGED <<qpc, quiz_exc>>
    /\ UNCHANGED <<quiz, answers, quiz_result, essayVars, concVars, fnVars, appVars>>

\* lines 121-127
Finish ==
    /\ qpc = "loop"
    /\ qi = Len(Questions(quiz))
    /\ quiz_result' = QuizScore(score_points, total_points, per_question)
    /\ qpc' = "returned"
    /\ UNCHANGED <<quiz, answers, qi, total_points, score_points, per_question, quiz_exc,
                   essayVars, concVars, fnVars, appVars>>

QuizNext == GradeChoice \/ GradeEssayQuestion \/ Finish

QuizInit == QuizEntered /\ EssayIdle /\ ConcIdle /\ FnIdle /\ AppIdle

QuizSpec == QuizInit /\ [][QuizNext]_vars

(***************************************************************************)
(* Properties of grade_quiz, checked under QuizSpec.                        *)
(***************************************************************************)
QuizReturned == qpc = "returned"

\* the answer given to question k (1-based), None when the list is shorter
AnswerTo(k) == AnswerAt(answers.items, k - 1)

QuestionAt(k) == Questions(quiz)[k]

IsEssayQuestion(k) == QuestionType(QuestionAt(k)) = T_essay

\* essay answers are strings or missing, choice answers integers or missing
AnswersWellTyped ==
    \A k \in 1..Len(Questions(quiz)) :
        AnswerTo(k).t \in (IF IsEssayQuestion(k) THEN {"str", "NoneType"}
                           ELSE {"int", "NoneType"})

\* C8: for well-typed answers, essay answers empty or missing included,
\* grade_quiz returns one per_question entry per question, in question order.
C8_OneEntryPerQuestion ==
    AnswersWellTyped =>
        /\ qpc # "raised"
        /\ QuizReturned =>
              LET entries == DictGet(quiz_result, K_per_question).items
              IN  /\ Len(entries) = Len(Questions(quiz))
                  /\ \A k \in 1..Len(entries) :
                        DictGet(entries[k], K_type) = PyStr(QuestionType(QuestionAt(k)))

\* the answer to choice question k is an integer equal to correct_index
AnswerMatches(k) ==
    AnswerTo(k).t = "int" /\ AnswerTo(k) = DictGet(QuestionAt(k), K_correct_index)

\* C9: a choice question's entry awards the question's points when the answer
\* is an integer equal to correct_index and 0 otherwise, and its correct flag
\* is true exactly in the first case.
C9_ChoiceAwardedOnMatchOnly ==
    \A k \in 1..Len(per_question) :
        ~IsEssayQuestion(k) =>
            /\ DictGet(per_question[k], K_awarded) =
                   PyInt(IF AnswerMatches(k) THEN PointsForMc(QuestionAt(k)) ELSE 0)
            /\ DictGet(per_question[k], K_correct) = PyBool(AnswerMatches(k))

\* C9 witness: a quiz graded with a matching answer that earned the points, a
\* text answer and a missing answer to a question without correct_index.
C9_MatchAndMismatchGraded ==
    /\ QuizReturned
    /\ \E k \in 1..Len(per_question) :
          /\ ~IsEssayQuestion(k)
          /\ AnswerMatches(k)
          /\ DictGet(per_question[k], K_awarded).n > 0
    /\ \E k \in 1..Len(per_question) :
          /\ ~IsEssayQuestion(k)
          /\ \/ AnswerTo(k).t = "str"
             \/ AnswerTo(k) = PyNone /\ ~DictHas(QuestionAt(k), K_correct_index)
          /\ DictGet(per_question[k], K_awarded).n = 0

EntrySum(entries, key) == SumSeq([k \in 1..Len(entries) |-> DictGet(entries[k], key).n])

\* C10: the returned score is the sum of awarded, total the sum of
\* max_points, percent round(score / total * 100, 2) when total > 0, else 0.0.
C10_ScoreTotalPercent ==
    QuizReturned =>
        LET entries == DictGet(quiz_result, K_per_question).items
            score == DictGet(quiz_result, K_score).n
            total == DictGet(quiz_result, K_total).n
        IN  /\ score = EntrySum(entries, K_awarded)
            /\ total = EntrySum(entries, K_max_points)
            /\ DictGet(quiz_result, K_percent) =
                   (IF total > 0 THEN PyFloat(RoundHalfEven(score * 10000, total), 100)
                    ELSE PyFloat(0, 1))

\* C24: in every QuizScore returned, every entry has 0 <= awarded <=
\* max_points, and so 0 <= score <= total and 0 <= percent <= 100, whatever
\* integer a choice question's points field holds and whatever grade the
\* essay grader returns.
C24_AwardedWithinMaximum ==
    QuizReturned =>
        LET entries == DictGet(quiz_result, K_per_question).items
            score == DictGet(quiz_result, K_score).n
            total == DictGet(quiz_result, K_total).n
            percent == DictGet(quiz_result, K_percent)
        IN  /\ \A k \in 1..Len(entries) :
                  /\ 0 <= DictGet(entries[k], K_awarded).n
                  /\ DictGet(entries[k], K_awarded).n <= DictGet(entries[k], K_max_points).n
            /\ 0 <= score /\ score <= total
            /\ 0 <= percent.num /\ percent.num <= 100 * percent.den

\* the grade_essay result kept in the entry of question k
EssayGraderResult(k) == DictGet(DictGet(per_question[k], K_details), K_essaygrader)

\* max_points of an essay question as stored: max_points, else points
ConfiguredMaximum(q) ==
    IF DictHas(q, K_max_points) THEN DictGet(q, K_max_points) ELSE DictGet(q, K_points)

\* C11: every essay question is graded by a grade_essay call with
\* max_points = 100 and is awarded round(grade / 100 * max_points) clamped to
\* [0, max_points], grade the grade of that call and max_points the entry's
\* maximum, which is the question's stored maximum when that is a positive
\* integer.
C11_EssayAwardIsRescaledGrade ==
    \A k \in 1..Len(per_question) :
        IsEssayQuestion(k) =>
            LET g == DictGet(EssayGraderResult(k), K_grade).n
                mp == DictGet(per_question[k], K_max_points).n
                cfg == ConfiguredMaximum(QuestionAt(k))
            IN  /\ DictGet(EssayGraderResult(k), K_max_points) = PyInt(EssayScale)
                /\ DictGet(per_question[k], K_awarded) =
                       PyInt(Max(0, Min(mp, RoundHalfEven(g * mp, EssayScale))))
                /\ cfg.t = "int" /\ cfg.n > 0 => mp = cfg.n

\* C11 witness: an essay graded 50 of 100 on a question worth MaxPoints got
\* the rounded share, and an essay graded 100 got all of them.
C11_HalfGradeRounded ==
    /\ QuizReturned
    /\ \E k \in 1..Len(per_question) :
          /\ IsEssayQuestion(k)
          /\ DictGet(EssayGraderResult(k), K_grade) = PyInt(50)
          /\ DictGet(per_question[k], K_max_points) = PyInt(MaxPoints)
          /\ DictGet(per_question[k], K_awarded) = PyInt(RoundHalfEven(MaxPoints, 2))
    /\ \E k \in 1..Len(per_question) :
          /\ IsEssayQuestion(k)
          /\ DictGet(EssayGraderResult(k), K_grade) = PyInt(EssayScale)
          /\ DictGet(per_question[k], K_awarded) = DictGet(per_question[k], K_max_points)

(***************************************************************************)
(* Several grade_essay calls that run concurrently.  A call's frame holds   *)
(* its arguments, its locals and the replies the service gives to its       *)
(* requests; a step of the system is one step of one call.                   *)
(***************************************************************************)
Calls == 1..MaxCalls

\* the arguments of the concurrent calls
ConcArgs ==
    {[essay |-> PyStr(EssayCat),
      requirements |-> PyList(<<PyStr(ReqCat), PyStr(ReqFox)>>),
      max_points |-> MaxPoints],
     [essay |-> PyStr(EssayDog), requirements |-> PyList(<<PyStr(ReqCat)>>), max_points |-> 1],
     [essay |-> PyStr(<<" ">>), requirements |-> PyList(<<>>), max_points |-> 1]}

EmbeddingFails == [ok |-> FALSE, vec |-> <<>>]
EmbeddingGives(v) == [ok |-> TRUE, vec |-> v]
GenerationFails(kind) ==
    [ok |-> FALSE, exc |-> CHOOSE e \in TransportErrors : e.type = <<kind>>, body |-> <<>>]
GenerationGives(text) ==
    [ok |-> TRUE, exc |-> NoExc, body |-> JsonDumps(Field(K_response, PyStr(text)))]

\* what the service replies to the requests of one call
ConcScripts ==
    {[emb1 |-> EmbeddingFails, emb2 |-> EmbeddingFails, gen |-> GenerationFails("URLError")],
     [emb1 |-> EmbeddingGives(<<1, 0>>), emb2 |-> EmbeddingGives(<<1, 0>>),
      gen |-> GenerationFails("TimeoutError")],
     [emb1 |-> EmbeddingGives(<<1, 0>>), emb2 |-> EmbeddingGives(<<1, 0>>),
      gen |-> GenerationGives(JsonDumps(Merge(Field(K_grade, PyInt(1)),
                                              Field(K_deductions,
                                                    PyList(<<Field(K_points, PyInt(1))>>)),
                                              NoField)))],
     [emb1 |-> EmbeddingFails, emb2 |-> EmbeddingFails, gen |-> GenerationGives(<<"n","o">>)],
     [emb1 |-> EmbeddingGives(<<1, 0>>), emb2 |-> EmbeddingFails,
      gen |-> GenerationGives(JsonDumps(Field(K_grade, PyStr(<<"x">>))))]}

\* the frame of a call that was just entered
NewFrame(a, sc) ==
    [pc |-> "validate", essay |-> a.essay, requirements |-> a.requirements,
     max_points |-> a.max_points, script |-> sc, vec_essay |-> <<>>, vec_ideal |-> <<>>,
     similarity_score |-> PyNone, response_text |-> <<>>, exc |-> NoExc, result |-> PyNone]

\* a frame the locals of every call are read from, as module globals would be
Frame_Shared(c) == calls[1]

\* the locals of call c
Frame(c) == calls[c]

\* call c goes on with the frame f
Continue(c, f) ==
    /\ calls' = [calls EXCEPT ![c] = f]
    /\ UNCHANGED <<essayVars, quizVars, fnVars, appVars>>

ConcValidate(c) ==
    /\ calls[c].pc = "validate"
    /\ \E f \in {Frame(c)} : \E e \in {ValidateInput(f.essay, f.requirements)} :
          Continue(c, [f EXCEPT !.exc = e,
                                !.pc = IF e # NoExc THEN "raised" ELSE "embed_essay"])

ConcEmbedEssay(c) ==
    /\ calls[c].pc = "embed_essay"
    /\ \E f \in {Frame(c)} :
          Continue(c, [f EXCEPT !.vec_essay = f.script.emb1.vec,
                                !.pc = IF f.script.emb1.ok THEN "embed_ideal" ELSE "generate"])

ConcEmbedIdeal(c) ==
    /\ calls[c].pc = "embed_ideal"
    /\ \E f \in {Frame(c)} :
          Continue(c, [f EXCEPT !.vec_ideal = f.script.emb2.vec,
                                !.similarity_score =
                                    IF f.script.emb2.ok
                                    THEN SemanticScore(f.vec_essay, f.script.emb2.vec)
                                    ELSE PyNone,
                                !.pc = "generate"])

ConcGenerate(c) ==
    /\ calls[c].pc = "generate"
    /\ \E f \in {Frame(c)} :
          Continue(c, [f EXCEPT !.response_text =
                                    IF f.script.gen.ok THEN OllamaResponseText(f.script.gen.body)
                                    ELSE <<>>,
                                !.exc = f.script.gen.exc,
                                !.vec_essay = <<>>,
                                !.vec_ideal = <<>>,
                                !.pc = IF f.script.gen.ok THEN "parse" ELSE "fallback"])

ConcParseReply(c) ==
    /\ calls[c].pc = "parse"
    /\ \E f \in {Frame(c)} :
          \E r \in {ModelPath(f.essay.s, ReqTexts(f.requirements), f.max_points, Model,
                               f.similarity_score, f.response_text)} :
             Continue(c, [f EXCEPT !.exc = r.exc,
                                   !.result = r.result,
                                   !.pc = IF r.exc = NoExc THEN "returned" ELSE "fallback"])

ConcFallback(c) ==
    /\ calls[c].pc = "fallback"
    /\ \E f \in {Frame(c)} :
          Continue(c, [f EXCEPT !.result = FallbackResult(f.essay.s, ReqTexts(f.requirements),
                                                         f.max_points, f.exc),
                                !.pc = "returned"])

ConcInit ==
    /\ calls \in [Calls -> {NewFrame(a, sc) : a \in ConcArgs, sc \in ConcScripts}]
    /\ EssayIdle
    /\ QuizIdle
    /\ FnIdle
    /\ AppIdle

ConcNext ==
    \E c \in Calls :
        \/ ConcValidate(c)
        \/ ConcEmbedEssay(c)
        \/ ConcEmbedIdeal(c)
        \/ ConcGenerate(c)
        \/ ConcParseReply(c)
        \/ ConcFallback(c)

ConcSpec == ConcInit /\ [][ConcNext]_vars

(***************************************************************************)
(* Properties of concurrent grade_essay calls, checked under ConcSpec.      *)
(***************************************************************************)
CallReturned(c) == calls[c].pc = "returned"

SameArguments(c, d) ==
    /\ calls[c].essay = calls[d].essay
    /\ calls[c].requirements = calls[d].requirements
    /\ calls[c].max_points = calls[d].max_points

\* the generation request of call c fails
ModelPathDisabled(c) == ~calls[c].script.gen.ok

\* C12: two calls with the same essay, requirements and max_points whose
\* generation requests both fail return the same coverage, grade and
\* deductions, whatever the kind of failure and whatever the embedding
\* requests returned.
C12_FallbackIsDeterministic ==
    \A c, d \in Calls :
        /\ CallReturned(c) /\ CallReturned(d)
        /\ SameArguments(c, d)
        /\ ModelPathDisabled(c) /\ ModelPathDisabled(d)
        => /\ DictGet(calls[c].result, K_coverage) = DictGet(calls[d].result, K_coverage)
           /\ DictGet(calls[c].result, K_grade) = DictGet(calls[d].result, K_grade)
           /\ DictGet(calls[c].result, K_deductions) = DictGet(calls[d].result, K_deductions)

\* C12 witness: two calls with the same arguments returned after different
\* failures of the generation request, with deductions in the result.
C12_TwoFailuresOneResult ==
    \E c, d \in Calls :
        /\ CallReturned(c) /\ CallReturned(d)
        /\ SameArguments(c, d)
        /\ ModelPathDisabled(c) /\ ModelPathDisabled(d)
        /\ calls[c].exc # calls[d].exc
        /\ calls[c].script.emb1 # calls[d].script.emb1
        /\ DictGet(calls[c].result, K_deductions).items # <<>>
        /\ DictGet(calls[c].result, K_deductions) = DictGet(calls[d].result, K_deductions)

\* what call c returns when it runs alone with its arguments and the replies
\* the service gives it
Alone(c) ==
    GradeEssay(calls[c].essay, calls[c].requirements, calls[c].max_points, Model,
               calls[c].script.emb1, calls[c].script.emb2, calls[c].script.gen)

CallEnded(c) == calls[c].pc \in {"returned", "raised"}

\* call c ended as it does when it runs alone
EndsAsAlone(c) ==
    LET alone == Alone(c)
    IN  IF alone.exc # NoExc
        THEN /\ calls[c].pc = "raised"
             /\ calls[c].exc = alone.exc
             /\ calls[c].result = PyNone
        ELSE /\ calls[c].pc = "returned"
             /\ calls[c].result = alone.result

\* a step is a step of one call: the frames of the others stay as they are,
\* and the call keeps its arguments and its replies
StepOfOneCall ==
    /\ \E c \in Calls : \A d \in Calls \ {c} : calls'[d] = calls[d]
    /\ \A c \in Calls :
          /\ calls'[c].essay = calls[c].essay
          /\ calls'[c].requirements = calls[c].requirements
          /\ calls'[c].max_points = calls[c].max_points
          /\ calls'[c].script = calls[c].script

\* C15: in every interleaving of the steps of concurrent calls, each call
\* ends with the result (or the error) it has when it runs alone with the
\* same arguments and the same replies of the service, and no step of a call
\* changes the frame of another call.
C15_CallsAreIndependent ==
    /\ [](\A c \in Calls : CallEnded(c) => EndsAsAlone(c))
    /\ [][StepOfOneCall]_vars

\* C15 witness: two calls with different arguments ended, one on the model
\* path and one on the fallback path, each with its own result.
C15_TwoCallsTwoResults ==
    \E c, d \in Calls :
        /\ CallReturned(c) /\ CallReturned(d)
        /\ calls[c].essay # calls[d].essay
        /\ DictGet(calls[c].result, K_backend) = PyStr(T_ollama)
        /\ DictGet(calls[d].result, K_backend) = PyStr(T_fallback)
        /\ calls[c].result = Alone(c).result
        /\ calls[d].result = Alone(d).result
        /\ DictGet(calls[c].result, K_grade) # DictGet(calls[d].result, K_grade)

(***************************************************************************)
(* The helper functions called on their own, on texts the grade_essay      *)
(* call above does not reach.                                               *)
(***************************************************************************)
\* essays: a repeated word, three words of a long requirement, words inside longer words
CovEssays ==
    {<<"C", "a", "t", " ", "o", "k", ".">>,
     <<"c", "a", "t", " ", "c", "a", "t", ".">>,
     <<"T", "h", "e", " ", "c", "a", "t", ",", " ", "t", "h", "e", " ", "f", "o", "x", " ", "a", "n", "d", " ", "a", " ", "d", "o", "g", " ", "r", "a", "n", ".">>,
     <<"o", "x", "y", "g", "e", "n", " ", "c", "a", "t", "_", "x", " ", "f", "o", "x", ".">>,
     <<"d", "o", "g">>}

\* requirements: one to seven tokens, short tokens only, blank, upper case and punctuation
CovReqs ==
    {<<"c", "a", "t">>,
     <<"C", "a", "t", " ", "f", "o", "x", " ", "d", "o", "g">>,
     <<"a", "n", " ", "o", "x">>,
     <<" ">>,
     <<"c", "a", "t", " ", "f", "o", "x", " ", "d", "o", "g", " ", "p", "i", "g", " ", "e", "m", "u", " ", "b", "a", "t", " ", "h", "e", "n">>,
     <<"F", "o", "x", "-", "c", "a", "t", "?">>,
     <<"o", "x", "y", " ", "g", "e", "n">>}

CoverageCalls ==
    [essay : CovEssays, requirements : SeqsUpTo(CovReqs, MaxReqs)]

\* _heuristic_coverage(essay, requirements) is called and returns
CallHeuristicCoverage ==
    /\ fn = "_heuristic_coverage"
    /\ ret = <<>>
    /\ ret' = <<HeuristicCoverage(arg.essay, arg.requirements)>>
    /\ UNCHANGED <<fn, arg, essayVars, quizVars, concVars, appVars>>

\* text before the object: none, plain, with braces, an opening bracket
WrapBefore ==
    {<<>>,
     <<"o", "k", " ">>,
     <<"a", "{", "b", "}", " ">>,
     <<"}", " ">>,
     <<"[">>}

\* well-formed JSON objects: flat, nested, braces inside a string value or a key
WrappedObjects ==
    {<<"{", "\"", "g", "r", "a", "d", "e", "\"", ":", " ", "1", "}">>,
     <<"{", "\"", "a", "\"", ":", " ", "{", "\"", "b", "\"", ":", " ", "2", "}", "}">>,
     <<"{", "\"", "r", "\"", ":", " ", "\"", "}", "\"", "}">>,
     <<"{", "\"", "r", "\"", ":", " ", "\"", "{", "\"", "}">>,
     <<"{", "\"", "r", "{", "\"", ":", " ", "1", "}">>}

\* text after the object
WrapAfter ==
    {<<>>,
     <<" ", "e", "n", "d">>,
     <<" ", "{", "x", "}">>,
     <<"]">>,
     <<" ", "}">>}

\* replies that are no wrapped object
PlainReplies ==
    {<<"n", "u", "l", "l">>,
     <<" ", "n", "u", "l", "l", " ">>,
     <<"7">>,
     <<"[", "1", "]">>,
     <<"n", "o">>,
     <<"{">>,
     <<"{", "a", "}">>,
     <<"{", "{", "}">>,
     <<"}", "{">>,
     <<"{", "\"", "a", "\"", ":", " ", "1">>,
     <<"{", "\"", "a", "\"", ":", " ", "1", "}", " ", "{", "\"", "b", "\"", ":", " ", "2", "}">>}

WrappedReplies == {b \o o \o a : b \in WrapBefore, o \in WrappedObjects, a \in WrapAfter}

ParserTexts == WrappedReplies \cup PlainReplies

\* _extract_first_json_object(text) is called and returns
CallExtractFirstJsonObject ==
    /\ fn = "_extract_first_json_object"
    /\ ret = <<>>
    /\ ret' = <<ExtractFirstJsonObject(arg)>>
    /\ UNCHANGED <<fn, arg, essayVars, quizVars, concVars, appVars>>

\* _parse_llm_json(text) is called and returns
CallParseLlmJson ==
    /\ fn = "_parse_llm_json"
    /\ ret = <<>>
    /\ ret' = <<ParseLlmJson(arg)>>
    /\ UNCHANGED <<fn, arg, essayVars, quizVars, concVars, appVars>>

FnInit ==
    /\ \/ fn = "_heuristic_coverage" /\ arg \in CoverageCalls
       \/ fn = "_extract_first_json_object" /\ arg \in ParserTexts
       \/ fn = "_parse_llm_json" /\ arg \in ParserTexts
    /\ ret = <<>>
    /\ EssayIdle
    /\ QuizIdle
    /\ ConcIdle
    /\ AppIdle

FnNext == CallHeuristicCoverage \/ CallExtractFirstJsonObject \/ CallParseLlmJson

FnSpec == FnInit /\ [][FnNext]_vars

\* the maximal runs of lower-case letters and digits in s, as index pairs
TokenRuns(s) ==
    {r \in (1..Len(s)) \X (1..Len(s)) :
        /\ r[1] <= r[2]
        /\ \A i \in r[1]..r[2] : IsTokenChar(s[i])
        /\ r[1] = 1 \/ ~IsTokenChar(s[r[1] - 1])
        /\ r[2] = Len(s) \/ ~IsTokenChar(s[r[2] + 1])}

\* the runs longer than 2 characters: the tokens of the requirement
LongRuns(s) == {r \in TokenRuns(s) : r[2] - r[1] + 1 > 2}

\* the tokens of requirement req that stand as whole words in the essay
MatchedRuns(e, req) ==
    {r \in LongRuns(Lower(req)) :
        WordSearch(Lower(e), SubSeq(Lower(req), r[1], r[2]))}

\* addressed = (ratio >= 0.5) OR (matches >= 3) with ratio = matches / tokens,
\* and not addressed without tokens
ExpectAddressed(e, req) ==
    LET By(matches, tokens) ==
            tokens > 0 /\ (2 * matches >= tokens \/ matches >= 3)
    IN  By(Cardinality(MatchedRuns(e, req)), Cardinality(LongRuns(Lower(req))))

\* _heuristic_coverage has returned
CoverageReturned == fn = "_heuristic_coverage" /\ ret # <<>>

\* the requirements of the call that are not blank, in order
CalledNonBlank == SelectSeq(arg.requirements, NonBlank)

CountOf(text, ch, a, b) == Cardinality({k \in a..b : text[k] = ch})

\* text[o..j] runs from the first opening brace to the first later closing
\* brace at which the nesting depth is back at zero
IsFirstBalanced(text, o, j) ==
    /\ text[o] = "{"
    /\ \A k \in 1..(o - 1) : text[k] # "{"
    /\ o < j
    /\ text[j] = "}"
    /\ CountOf(text, "{", o, j) = CountOf(text, "}", o, j)
    /\ \A k \in o..(j - 1) :
          text[k] = "}" => CountOf(text, "{", o, k) # CountOf(text, "}", o, k)

\* some substring of text is the one _extract_first_json_object looks for
HasFirstBalanced(text) ==
    \E o \in 1..Len(text) : \E j \in o..Len(text) : IsFirstBalanced(text, o, j)

ExtractReturned == fn = "_extract_first_json_object" /\ ret # <<>>

ParseReturned == fn = "_parse_llm_json" /\ ret # <<>>

\* _extract_first_json_object returns the first balanced substring, and
\* nothing when there is none
ExtractsFirstBalanced ==
    ExtractReturned =>
        /\ ret[1].found <=> HasFirstBalanced(arg)
        /\ ret[1].found =>
              \E o \in 1..Len(arg) : \E j \in o..Len(arg) :
                  IsFirstBalanced(arg, o, j) /\ ret[1].text = SubSeq(arg, o, j)

\* the direct parse fails, and the extracted substring is absent or does not
\* parse
BothAttemptsFail(text) ==
    /\ ~JsonLoads(text).ok
    /\ \A o \in 1..Len(text) : \A j \in o..Len(text) :
          IsFirstBalanced(text, o, j) => ~JsonLoads(SubSeq(text, o, j)).ok

\* the direct parse succeeds with the JSON value null, which is the value
\* that stands for unparseable
DirectParseGivesNull(text) == JsonLoads(text).ok /\ JsonLoads(text).val = PyNone

\* C22 as stated: _extract_first_json_object returns the first balanced
\* substring or nothing, and _parse_llm_json reports unparseable exactly when
\* the direct parse fails and that substring is absent or does not parse.
C22_UnparseableIffBothAttemptsFail ==
    /\ ExtractsFirstBalanced
    /\ ParseReturned => (ret[1] = PyNone <=> BothAttemptsFail(arg))

\* C22 amended: as stated, with the reply that is the JSON value null also
\* reported unparseable although its direct parse succeeds; in every other
\* case the value of the first attempt that succeeds is returned.
C22_UnparseableIffBothFailOrNull ==
    /\ ExtractsFirstBalanced
    /\ ParseReturned =>
          /\ ret[1] = PyNone <=> BothAttemptsFail(arg) \/ DirectParseGivesNull(arg)
          /\ JsonLoads(arg).ok => ret[1] = JsonLoads(arg).val
          /\ ~JsonLoads(arg).ok /\ ret[1] # PyNone =>
                \E o \in 1..Len(arg) : \E j \in o..Len(arg) :
                    /\ IsFirstBalanced(arg, o, j)
                    /\ ret[1] = JsonLoads(SubSeq(arg, o, j)).val

\* C22 witness: the reply null was reported unparseable after a direct parse
\* that succeeded.
C22_NullReply ==
    /\ ParseReturned
    /\ DirectParseGivesNull(arg)
    /\ ret[1] = PyNone

\* two objects in one reply: the first one is extracted
C22_FirstOfTwoObjects ==
    /\ ExtractReturned
    /\ ret[1].found
    /\ Len(ret[1].text) < Len(arg)
    /\ \E k \in (Len(ret[1].text) + 1)..Len(arg) : arg[k] = "}"

\* the ways to read the reply as a well-formed object between two texts
Wrappings(text) ==
    {w \in WrapBefore \X WrappedObjects \X WrapAfter : text = w[1] \o w[2] \o w[3]}

\* position k of text lies inside a string literal (no text here escapes a
\* quote)
InString(text, k) == CountOf(text, "\"", 1, k - 1) % 2 = 1

IsBrace(c) == c \in {"{", "}"}

\* no key and no string value of the object text holds a brace
NoBraceInStrings(text) ==
    \A k \in 1..Len(text) : IsBrace(text[k]) => ~InString(text, k)

\* C23 as stated: a reply that is one well-formed JSON object wrapped in
\* extra text (the reply as a whole being no JSON) is parsed to that object,
\* also when the wrapping text or the object's strings hold braces.
C23_WrappedObjectIsReturned ==
    ParseReturned /\ ~JsonLoads(arg).ok =>
        \A w \in Wrappings(arg) : ret[1] = JsonLoads(w[2]).val

\* C23 amended: the wrapped object is returned when the text before it holds
\* no opening brace and no key or string value of the object holds a brace;
\* braces in the text after the object do no harm.
C23_WrappedObjectWithoutStrayBraces ==
    ParseReturned /\ ~JsonLoads(arg).ok =>
        \A w \in Wrappings(arg) :
            (\A k \in 1..Len(w[1]) : w[1][k] # "{") /\ NoBraceInStrings(w[2])
                => ret[1] = JsonLoads(w[2]).val /\ ret[1].t = "dict"

\* C23 witness: a nested object between plain text and text with braces was
\* returned.
C23_SalvagedBetweenTexts ==
    /\ ParseReturned
    /\ ~JsonLoads(arg).ok
    /\ \E w \in Wrappings(arg) :
          /\ w[1] # <<>>
          /\ \A k \in 1..Len(w[1]) : w[1][k] # "{"
          /\ \E k \in 1..Len(w[3]) : w[3][k] = "{"
          /\ CountOf(w[2], "{", 1, Len(w[2])) = 2
          /\ NoBraceInStrings(w[2])
          /\ ret[1] = JsonLoads(w[2]).val
          /\ ret[1].t = "dict"

(***************************************************************************)
(* The web application: app.py.  One quiz is stored; students open it and  *)
(* submit it while the days pass.  The stored quiz has no questions, so    *)
(* submit_quiz builds no answers and grade_quiz returns the zero score, and *)
(* it names no teacher_email while TEACHER_EMAIL is unset, so no mail is   *)
(* sent.                                                                   *)
(***************************************************************************)
K_id == <<"i", "d">>
K_available_from == <<"a", "v", "a", "i", "l", "a", "b", "l", "e", "_", "f", "r", "o", "m">>
K_available_until == <<"a", "v", "a", "i", "l", "a", "b", "l", "e", "_", "u", "n", "t", "i", "l">>

\* the last day of November 2026 that the clock reaches
MaxDay == 11
\* the days the clock shows: 9, 10 and 11 November, so that the ISO texts
\* differ in the tens as well as in the units
Days == 9..MaxDay
\* how many responses are saved before the exploration stops
MaxResponses == 2

\* line 480: date.isoformat(), 'YYYY-MM-DD'
IsoDate(d) ==
    <<"2", "0", "2", "6", "-", "1", "1", "-">> \o (IF d < 10 THEN <<"0">> ELSE <<>>) \o NatToStr(d)

\* the order of the characters of a date text by code point: '-' < '0' < '9'
CharOrd(c) == IF c = "-" THEN 0 ELSE 1 + DigitVal(c)

\* Python's a < b on str: the first differing character decides, a proper
\* prefix is smaller
StrLess(a, b) ==
    \E i \in 1..Len(b) :
        /\ \A k \in 1..(i - 1) : k <= Len(a) /\ a[k] = b[k]
        /\ i - 1 <= Len(a)
        /\ (i > Len(a) \/ CharOrd(a[i]) < CharOrd(b[i]))

\* lines 460-461: the date of a form field, None when the field was empty
Windows == {PyNone} \cup {PyStr(IsoDate(d)) : d \in Days}

QuizId == <<"q","1">>
\* an id no quiz file has
NoQuizId == <<"z","z">>
StudentNames == {<<>>, <<"A","n","n">>}

\* lines 455-463: the quiz that teacher_create saved
StoredQuiz(available_from, available_until) ==
    PyDict(<<K_id, K_available_from, K_available_until, K_questions>>,
           <<PyStr(QuizId), available_from, available_until, PyList(<<>>)>>)

\* load_quiz, lines 136-141: None when there is no file
LoadQuiz(quiz_id) ==
    IF quiz_id \in DOMAIN quizzes THEN quizzes[quiz_id] ELSE PyNone

\* take_quiz, lines 480-488: what the handler answers for a stored quiz
TakeQuizPage(qz, now_date) ==
    IF /\ Truthy(DictGet(qz, K_available_from))
       /\ StrLess(now_date, DictGet(qz, K_available_from).s)
    THEN "redirect:index"
    ELSE IF /\ Truthy(DictGet(qz, K_available_until))
            /\ StrLess(DictGet(qz, K_available_until).s, now_date)
    THEN "redirect:index"
    ELSE "take_quiz.html"

\* GET /quiz/<quiz_id>
TakeQuiz ==
    /\ \E quiz_id \in {QuizId, NoQuizId} :
          \E qz \in {LoadQuiz(quiz_id)} :
              page' = IF ~Truthy(qz) THEN "404"
                      ELSE TakeQuizPage(qz, IsoDate(today))
    /\ today \in Days
    /\ UNCHANGED <<today, quizzes, responses, essayVars, quizVars, concVars, fnVars>>

\* POST /quiz/<quiz_id>/submit: lines 491-568.  The response keeps the date
\* of submitted_at; its id is its place among the saved files.
SubmitQuiz ==
    /\ today \in Days
    /\ Len(responses) < MaxResponses
    /\ \E quiz_id \in {QuizId, NoQuizId}, student_name \in StudentNames :
          \E qz \in {LoadQuiz(quiz_id)} :
              IF ~Truthy(qz)
              THEN page' = "404" /\ UNCHANGED responses
              ELSE /\ responses' = Append(responses,
                          [quiz_id |-> quiz_id,
                           student_name |-> student_name,
                           submitted_at |-> IsoDate(today),
                           answers |-> <<>>,
                           result |-> QuizScore(0, 0, <<>>)])
                   /\ page' = "submission_success.html"
    /\ UNCHANGED <<today, quizzes, essayVars, quizVars, concVars, fnVars>>

\* midnight UTC: datetime.now(UTC).date() is the next day
NextDay ==
    /\ today \in Days
    /\ today < MaxDay
    /\ today' = today + 1
    /\ UNCHANGED <<quizzes, responses, page, essayVars, quizVars, concVars, fnVars>>

AppInit ==
    /\ today = 9
    /\ \E available_from \in Windows, available_until \in Windows :
          quizzes = [id \in {QuizId} |-> StoredQuiz(available_from, available_until)]
    /\ responses = <<>>
    /\ page = "none"
    /\ EssayIdle
    /\ QuizIdle
    /\ ConcIdle
    /\ FnIdle

AppNext == TakeQuiz \/ SubmitQuiz \/ NextDay

AppSpec == AppInit /\ [][AppNext]_vars

\* C29: a submission is graded and stored only inside the quiz's
\* availability window: no response is saved for a quiz that take_quiz
\* would refuse to show on the date of the submission.
C29_NoResponseOutsideWindow ==
    \A i \in 1..Len(responses) :
        TakeQuizPage(LoadQuiz(responses[i].quiz_id), responses[i].submitted_at)
            = "take_quiz.html"


====
